---------------------------- MODULE Spec2Model ----------------------------
(***************************************************************************)
(* Model of poly-core's order-construction engine (src/src/kit.ts):        *)
(* tick alignment, the token metadata cache, limit and market order        *)
(* assembly and response normalization.                                    *)
(*                                                                         *)
(* Conventions.                                                            *)
(*  - A JavaScript string is a sequence of one-character strings, so that  *)
(*    indexOf, includes, toLowerCase, parseFloat and Number are computed   *)
(*    as the code computes them.  The empty sequence is the empty string.  *)
(*  - An optional value is <<>> (undefined) or <<v>>.  A TickSize is a     *)
(*    string, so an absent tick size is <<>>, which is falsy like "".      *)
(*  - A price is an integer count of 1/PriceUnit: 12700 is 0.127.          *)
(*    Arithmetic is exact: binary floating-point drift is not modelled.    *)
(***************************************************************************)
EXTENDS Integers, Naturals, Sequences, FiniteSets, TLC

VARIABLES
    tokenMetaCache,   \* kit.ts:77   Map<tokenId, TokenMeta>
    now,              \* Date.now() in ms
    call,             \* per invocation: position, request, locals, collaborator calls, outcome
    prev,             \* summary of the last completed resolveTokenMeta run
    alignIn,          \* alignPriceToTick: the argument
    alignOut,         \* alignPriceToTick: the results of successive applications
    classifyIn,       \* mapClobErrorMsgToCode: the argument
    classifyOut,      \* mapClobErrorMsgToCode: the result, once computed
    approval,         \* checkAllApprovals: the invocation, its reads and its result
    session           \* initializeTradingSession / ensureApprovals: locals, events, calls, outcome

vars == <<tokenMetaCache, now, call, prev, alignIn, alignOut, classifyIn, classifyOut, approval, session>>

\* The variables by the part of the program they belong to
kitVars == <<tokenMetaCache, now, call, prev>>
alignVars == <<alignIn, alignOut>>
classifyVars == <<classifyIn, classifyOut>>
\* What the order and metadata operations leave alone
beyondKit == <<alignVars, classifyVars, approval, session>>
\* What the applications of alignPriceToTick leave alone
beyondAlign == <<kitVars, classifyVars, approval, session>>
\* What the applications of mapClobErrorMsgToCode leave alone
beyondClassify == <<kitVars, alignVars, approval, session>>
\* What checkAllApprovals leaves alone
beyondApproval == <<kitVars, alignVars, classifyVars, session>>
\* What initializeTradingSession and ensureApprovals leave alone
beyondSession == <<kitVars, alignVars, classifyVars, approval>>

-----------------------------------------------------------------------------
(* Values *)

Undefined == <<>>
Def(v) == <<v>>
IsDef(o) == o # <<>>
Val(o) == o[1]

\* price: number, as a count of 1/PriceUnit
PriceUnit == 100000

\* types.ts:158
TickSizes ==
    { <<"0", ".", "1">>,
      <<"0", ".", "0", "1">>,
      <<"0", ".", "0", "0", "1">>,
      <<"0", ".", "0", "0", "0", "1">> }

\* types.ts:154
TickRoundingModes == {"nearest", "down", "up"}

Digits == {"0", "1", "2", "3", "4", "5", "6", "7", "8", "9"}

DigitVal(ch) ==
    CASE ch = "0" -> 0 [] ch = "1" -> 1 [] ch = "2" -> 2 [] ch = "3" -> 3
      [] ch = "4" -> 4 [] ch = "5" -> 5 [] ch = "6" -> 6 [] ch = "7" -> 7
      [] ch = "8" -> 8 [] ch = "9" -> 9

Pow10(n) == 10 ^ n

\* String.prototype.indexOf for a one-character needle: 0-based, -1 when absent
IndexOf(s, ch) ==
    IF \E i \in 1..Len(s) : s[i] = ch
    THEN (CHOOSE i \in 1..Len(s) : s[i] = ch /\ \A j \in 1..(i - 1) : s[j] # ch) - 1
    ELSE -1

\* The digits of s read as a natural number
RECURSIVE DigitsValue(_)
DigitsValue(s) ==
    IF Len(s) = 0 THEN 0
    ELSE 10 * DigitsValue(SubSeq(s, 1, Len(s) - 1)) + DigitVal(s[Len(s)])

\* Number(s) and parseFloat(s) on the decimal literals the collaborators send:
\* <<numerator, denominator>>, and <<0, 0>> for NaN.
NaN == <<0, 0>>
ParseDecimal(s) ==
    LET idx == IndexOf(s, ".")
        int == IF idx < 0 THEN s ELSE SubSeq(s, 1, idx)
        frac == IF idx < 0 THEN <<>> ELSE SubSeq(s, idx + 2, Len(s))
    IN  IF /\ Len(int) > 0
           /\ \A i \in 1..Len(int) : int[i] \in Digits
           /\ \A i \in 1..Len(frac) : frac[i] \in Digits
        THEN <<DigitsValue(int \o frac), Pow10(Len(frac))>>
        ELSE NaN

\* Math.round of the non-negative rational n/d: floor(n/d + 0.5)
MathRound(n, d) == (n \div d) + (IF 2 * (n % d) >= d THEN 1 ELSE 0)
\* Math.floor and Math.ceil of the non-negative rational n/d
MathFloor(n, d) == n \div d
MathCeil(n, d) == (n \div d) + (IF n % d # 0 THEN 1 ELSE 0)

-----------------------------------------------------------------------------
(* Tick alignment: kit.ts:37-63 *)

getTickDecimals(tick) ==
    LET idx == IndexOf(tick, ".")
    IN  IF idx < 0 THEN 0 ELSE Len(tick) - idx - 1

\* AlignSteps with Math.ceil taken for Math.floor + 1
AlignStepsCeilAsFloorPlusOne(priceInt, tickInt, rounding) ==
    IF rounding = "down" THEN MathFloor(priceInt, tickInt)
    ELSE IF rounding = "up" THEN MathFloor(priceInt, tickInt) + 1
    ELSE MathRound(priceInt, tickInt)

\* The step count of alignPriceToTick for ratio = priceInt / tickInt (kit.ts:55-59)
AlignSteps(priceInt, tickInt, rounding) ==
    IF rounding = "down" THEN MathFloor(priceInt, tickInt)
    ELSE IF rounding = "up" THEN MathCeil(priceInt, tickInt)
    ELSE MathRound(priceInt, tickInt)

alignPriceToTick(price, tick, rounding) ==
    LET decimals == getTickDecimals(tick)
        scale == Pow10(decimals)
        priceInt == MathRound(price * scale, PriceUnit)
        tickNum == ParseDecimal(tick)
        tickInt == MathRound(tickNum[1] * scale, tickNum[2])
    IN  IF tickInt <= 0 THEN price
        ELSE LET steps == AlignSteps(priceInt, tickInt, rounding)
                 alignedInt == steps * tickInt
             IN  (alignedInt * PriceUnit) \div scale

-----------------------------------------------------------------------------
(* Strings: the substrings mapClobErrorMsgToCode looks for (usdc.ts:72-82) *)

PatTickSize ==
    <<"p", "r", "i", "c", "e", " ", "b", "r", "e", "a", "k", "s", " ", "m",
      "i", "n", "i", "m", "u", "m", " ", "t", "i", "c", "k", " ", "s", "i",
      "z", "e">>
PatMinSize ==
    <<"s", "i", "z", "e", " ", "l", "o", "w", "e", "r", " ", "t", "h", "a",
      "n", " ", "t", "h", "e", " ", "m", "i", "n", "i", "m", "u", "m">>
PatDuplicated ==
    <<"d", "u", "p", "l", "i", "c", "a", "t", "e", "d">>
PatNotEnoughBalance ==
    <<"n", "o", "t", " ", "e", "n", "o", "u", "g", "h", " ", "b", "a", "l",
      "a", "n", "c", "e">>
PatAllowance ==
    <<"a", "l", "l", "o", "w", "a", "n", "c", "e">>
PatInvalidExpiration ==
    <<"i", "n", "v", "a", "l", "i", "d", " ", "e", "x", "p", "i", "r", "a",
      "t", "i", "o", "n">>
PatCouldNotInsert ==
    <<"c", "o", "u", "l", "d", " ", "n", "o", "t", " ", "i", "n", "s", "e",
      "r", "t", " ", "o", "r", "d", "e", "r">>
PatExecution ==
    <<"c", "o", "u", "l", "d", " ", "n", "o", "t", " ", "r", "u", "n", " ",
      "t", "h", "e", " ", "e", "x", "e", "c", "u", "t", "i", "o", "n">>
PatMatchDelayed ==
    <<"o", "r", "d", "e", "r", " ", "m", "a", "t", "c", "h", " ", "d", "e",
      "l", "a", "y", "e", "d">>
PatErrorDelaying ==
    <<"e", "r", "r", "o", "r", " ", "d", "e", "l", "a", "y", "i", "n", "g">>
PatFokOrders ==
    <<"f", "o", "k", " ", "o", "r", "d", "e", "r", "s">>
PatNotFullyFilled ==
    <<"n", "o", "t", " ", "f", "u", "l", "l", "y", " ", "f", "i", "l", "l",
      "e", "d">>
PatMarketNotReady ==
    <<"m", "a", "r", "k", "e", "t", " ", "i", "s", " ", "n", "o", "t", " ",
      "y", "e", "t", " ", "r", "e", "a", "d", "y">>

\* The fixed messages of kit.ts (lines 389, 397, 407, 482, 456, 468, 597, 598)
MsgMissingTick ==
    <<"M", "i", "s", "s", "i", "n", "g", " ", "t", "i", "c", "k", " ", "s",
      "i", "z", "e", " ", "f", "o", "r", " ", "t", "o", "k", "e", "n">>
MsgBreaksTick ==
    <<"P", "r", "i", "c", "e", " ", "b", "r", "e", "a", "k", "s", " ", "m",
      "i", "n", "i", "m", "u", "m", " ", "t", "i", "c", "k", " ", "s", "i",
      "z", "e", " ", "r", "u", "l", "e", "s">>
MsgInvalidExpiration ==
    <<"i", "n", "v", "a", "l", "i", "d", " ", "e", "x", "p", "i", "r", "a",
      "t", "i", "o", "n">>
MsgPriceRequired ==
    <<"p", "r", "i", "c", "e", " ", "i", "s", " ", "r", "e", "q", "u", "i",
      "r", "e", "d", " ", "f", "o", "r", " ", "l", "i", "m", "i", "t", " ",
      "o", "r", "d", "e", "r", "s">>
MsgSubmissionFailed ==
    <<"O", "r", "d", "e", "r", " ", "s", "u", "b", "m", "i", "s", "s", "i",
      "o", "n", " ", "f", "a", "i", "l", "e", "d">>
MsgRequestFailed ==
    <<"R", "e", "q", "u", "e", "s", "t", " ", "f", "a", "i", "l", "e", "d">>
MsgAmountUsdcRequired ==
    <<"a", "m", "o", "u", "n", "t", "U", "s", "d", "c", " ", "i", "s", " ",
      "r", "e", "q", "u", "i", "r", "e", "d", " ", "f", "o", "r", " ", "B",
      "U", "Y", " ", "m", "a", "r", "k", "e", "t", " ", "o", "r", "d", "e",
      "r", "s">>
MsgAmountSharesRequired ==
    <<"a", "m", "o", "u", "n", "t", "S", "h", "a", "r", "e", "s", " ", "i",
      "s", " ", "r", "e", "q", "u", "i", "r", "e", "d", " ", "f", "o", "r",
      " ", "S", "E", "L", "L", " ", "m", "a", "r", "k", "e", "t", " ", "o",
      "r", "d", "e", "r", "s">>

\* Messages a collaborator may send
SampleTickSize ==
    <<"P", "r", "i", "c", "e", " ", "b", "r", "e", "a", "k", "s", " ", "m",
      "i", "n", "i", "m", "u", "m", " ", "t", "i", "c", "k", " ", "s", "i",
      "z", "e">>
SampleServerExploded ==
    <<"s", "e", "r", "v", "e", "r", " ", "e", "x", "p", "l", "o", "d", "e",
      "d">>
SampleBalance ==
    <<" ", "N", "o", "t", " ", "e", "n", "o", "u", "g", "h", " ", "b", "a",
      "l", "a", "n", "c", "e", " ", "/", " ", "a", "l", "l", "o", "w", "a",
      "n", "c", "e", " ">>
SampleTimeout ==
    <<"s", "o", "c", "k", "e", "t", " ", "h", "a", "n", "g", " ", "u", "p">>

-----------------------------------------------------------------------------
(* String operations *)

UpperCase == <<"A", "B", "C", "D", "E", "F", "G", "H", "I", "J", "K", "L", "M",
               "N", "O", "P", "Q", "R", "S", "T", "U", "V", "W", "X", "Y", "Z">>
LowerCase == <<"a", "b", "c", "d", "e", "f", "g", "h", "i", "j", "k", "l", "m",
               "n", "o", "p", "q", "r", "s", "t", "u", "v", "w", "x", "y", "z">>

LowerChar(ch) ==
    IF \E i \in 1..26 : UpperCase[i] = ch
    THEN LowerCase[CHOOSE i \in 1..26 : UpperCase[i] = ch]
    ELSE ch

\* String.prototype.toLowerCase
ToLowerCase(s) == [i \in 1..Len(s) |-> LowerChar(s[i])]

\* String.prototype.trim
Trim(s) ==
    LET keep == {i \in 1..Len(s) : s[i] # " "}
    IN  IF keep = {} THEN <<>>
        ELSE SubSeq(s, CHOOSE i \in keep : \A j \in keep : i <= j,
                       CHOOSE i \in keep : \A j \in keep : i >= j)

\* String.prototype.includes
Includes(s, pat) ==
    \E i \in 1..(Len(s) - Len(pat) + 1) : SubSeq(s, i, i + Len(pat) - 1) = pat

\* JavaScript truthiness of an optional string: neither undefined nor ""
TruthyStr(o) == IsDef(o) /\ Val(o) # ""
\* ... of an optional message (a sequence of characters)
TruthyMsg(o) == IsDef(o) /\ Val(o) # <<>>

\* a ?? b
Coalesce(a, b) == IF IsDef(a) THEN a ELSE b

-----------------------------------------------------------------------------
(* Error classification: usdc.ts:66-85 *)

\* types.ts:266-279
ClobInsertErrorCodes ==
    { "INVALID_ORDER_MIN_TICK_SIZE", "INVALID_ORDER_MIN_SIZE",
      "INVALID_ORDER_DUPLICATED", "INVALID_ORDER_NOT_ENOUGH_BALANCE",
      "INVALID_ORDER_EXPIRATION", "INVALID_ORDER_ERROR", "EXECUTION_ERROR",
      "ORDER_DELAYED", "DELAYING_ORDER_ERROR", "FOK_ORDER_NOT_FILLED_ERROR",
      "MARKET_NOT_READY", "HTTP_ERROR", "UNKNOWN" }

\* mapClobErrorMsgToCode with the balance test moved before the duplicate test
mapClobErrorMsgToCodeBalanceFirst(errorMsg) ==
    IF ~TruthyMsg(errorMsg) THEN Undefined
    ELSE LET msg == ToLowerCase(Trim(Val(errorMsg)))
         IN  IF Includes(msg, PatTickSize) THEN Def("INVALID_ORDER_MIN_TICK_SIZE")
             ELSE IF Includes(msg, PatMinSize) THEN Def("INVALID_ORDER_MIN_SIZE")
             ELSE IF Includes(msg, PatNotEnoughBalance) \/ Includes(msg, PatAllowance)
                  THEN Def("INVALID_ORDER_NOT_ENOUGH_BALANCE")
             ELSE IF Includes(msg, PatDuplicated) THEN Def("INVALID_ORDER_DUPLICATED")
             ELSE IF Includes(msg, PatInvalidExpiration) THEN Def("INVALID_ORDER_EXPIRATION")
             ELSE IF Includes(msg, PatCouldNotInsert) THEN Def("INVALID_ORDER_ERROR")
             ELSE IF Includes(msg, PatExecution) THEN Def("EXECUTION_ERROR")
             ELSE IF Includes(msg, PatMatchDelayed) THEN Def("ORDER_DELAYED")
             ELSE IF Includes(msg, PatErrorDelaying) THEN Def("DELAYING_ORDER_ERROR")
             ELSE IF Includes(msg, PatFokOrders) \/ Includes(msg, PatNotFullyFilled)
                  THEN Def("FOK_ORDER_NOT_FILLED_ERROR")
             ELSE IF Includes(msg, PatMarketNotReady) THEN Def("MARKET_NOT_READY")
             ELSE Def("UNKNOWN")

\* errorMsg is optional; the result is an optional code
mapClobErrorMsgToCode(errorMsg) ==
    IF ~TruthyMsg(errorMsg) THEN Undefined
    ELSE LET msg == ToLowerCase(Trim(Val(errorMsg)))
         IN  IF Includes(msg, PatTickSize) THEN Def("INVALID_ORDER_MIN_TICK_SIZE")
             ELSE IF Includes(msg, PatMinSize) THEN Def("INVALID_ORDER_MIN_SIZE")
             ELSE IF Includes(msg, PatDuplicated) THEN Def("INVALID_ORDER_DUPLICATED")
             ELSE IF Includes(msg, PatNotEnoughBalance) \/ Includes(msg, PatAllowance)
                  THEN Def("INVALID_ORDER_NOT_ENOUGH_BALANCE")
             ELSE IF Includes(msg, PatInvalidExpiration) THEN Def("INVALID_ORDER_EXPIRATION")
             ELSE IF Includes(msg, PatCouldNotInsert) THEN Def("INVALID_ORDER_ERROR")
             ELSE IF Includes(msg, PatExecution) THEN Def("EXECUTION_ERROR")
             ELSE IF Includes(msg, PatMatchDelayed) THEN Def("ORDER_DELAYED")
             ELSE IF Includes(msg, PatErrorDelaying) THEN Def("DELAYING_ORDER_ERROR")
             ELSE IF Includes(msg, PatFokOrders) \/ Includes(msg, PatNotFullyFilled)
                  THEN Def("FOK_ORDER_NOT_FILLED_ERROR")
             ELSE IF Includes(msg, PatMarketNotReady) THEN Def("MARKET_NOT_READY")
             ELSE Def("UNKNOWN")

-----------------------------------------------------------------------------
(* Response normalization: kit.ts:264-293 *)

\* res?.f : res is an optional record
Field(res, f) == IF IsDef(res) THEN Val(res)[f] ELSE Undefined

\* A CreateOrderResult (types.ts:281-296) with every optional field absent
EmptyResult ==
    [ success |-> FALSE, orderId |-> Undefined, status |-> Undefined,
      errorCode |-> Undefined, errorMsg |-> Undefined,
      transactionHashes |-> Undefined, raw |-> Undefined ]

\* { success: false, errorCode, errorMsg } as the validation branches build it
Failure(code, msg) ==
    [EmptyResult EXCEPT !.errorCode = Def(code), !.errorMsg = Def(msg)]

normalizeOrderResponse(res) ==
    LET rawSuccess ==
            IF IsDef(Field(res, "success")) THEN Val(Field(res, "success"))
            ELSE TruthyStr(Field(res, "orderID")) \/ TruthyStr(Field(res, "orderId"))
        errorMsg == Coalesce(Field(res, "errorMsg"), Field(res, "error"))
        status == Field(res, "status")
        orderId == Coalesce(Field(res, "orderID"), Field(res, "orderId"))
        txHashes == Coalesce(Field(res, "transactionsHashes"),
                        Coalesce(Field(res, "transactionHashes"),
                                 Field(res, "orderHashes")))
    IN  [ success |-> rawSuccess /\ ~TruthyMsg(errorMsg),
          orderId |-> IF TruthyStr(orderId) THEN orderId ELSE Undefined,
          status |-> IF TruthyStr(status) THEN status ELSE Undefined,
          errorMsg |-> IF TruthyMsg(errorMsg) THEN errorMsg ELSE Undefined,
          errorCode |-> IF TruthyMsg(errorMsg) THEN mapClobErrorMsgToCode(errorMsg)
                        ELSE Undefined,
          transactionHashes |-> txHashes,
          raw |-> res ]

-----------------------------------------------------------------------------
(* Token metadata cache: kit.ts:33-35, 77, 295-345 *)

DEFAULT_META_CACHE_TTL_MS == 60000

\* The result of resolveTokenMeta with neither field set
NoMeta == [tickSize |-> <<>>, negRisk |-> Undefined]

\* kit.ts:305-308 and 315-318: only what the caller supplied
OverridesOnly(p) == [tickSize |-> p.tickSizeOverride, negRisk |-> p.negRiskOverride]

\* IsFresh with no look at the entry's age
IsFreshIgnoringAge(cached, nowMs) == IsDef(cached)

\* IsFresh with the entry expiring when its age reaches the TTL
IsFreshBelowTtl(cached, nowMs) ==
    IsDef(cached) /\ nowMs - Val(cached).fetchedAtMs < DEFAULT_META_CACHE_TTL_MS

\* kit.ts:323: a cached entry that is still fresh at nowMs
IsFresh(cached, nowMs) ==
    IsDef(cached) /\ nowMs - Val(cached).fetchedAtMs <= DEFAULT_META_CACHE_TTL_MS

\* resolveTokenMetaSync without the early return of mode manual
resolveTokenMetaSyncIgnoringMode(p, cache, nowMs) ==
    LET hasTick == ~p.needTickSize \/ p.tickSizeOverride # <<>>
        hasNeg == ~p.needNegRisk \/ IsDef(p.negRiskOverride)
        cached == cache[p.tokenId]
    IN  IF hasTick /\ hasNeg THEN [path |-> "overrides", out |-> OverridesOnly(p)]
        ELSE IF IsFresh(cached, nowMs)
        THEN [path |-> "hit",
              out |-> [tickSize |-> IF p.tickSizeOverride # <<>>
                                    THEN p.tickSizeOverride
                                    ELSE Val(cached).tickSize,
                       negRisk |-> Coalesce(p.negRiskOverride,
                                            Def(Val(cached).negRisk))]]
        ELSE [path |-> "miss", out |-> NoMeta]

\* kit.ts:304-328: resolveTokenMeta up to its only await.  path tells which
\* return was taken, or "miss" when the lookup is issued.
resolveTokenMetaSync(p, cache, nowMs) ==
    IF p.mode = "manual" THEN [path |-> "manual", out |-> OverridesOnly(p)]
    ELSE LET hasTick == ~p.needTickSize \/ p.tickSizeOverride # <<>>
             hasNeg == ~p.needNegRisk \/ IsDef(p.negRiskOverride)
             cached == cache[p.tokenId]
         IN  IF hasTick /\ hasNeg THEN [path |-> "overrides", out |-> OverridesOnly(p)]
             ELSE IF IsFresh(cached, nowMs)
             THEN [path |-> "hit",
                   out |-> [tickSize |-> IF p.tickSizeOverride # <<>>
                                         THEN p.tickSizeOverride
                                         ELSE Val(cached).tickSize,
                            negRisk |-> Coalesce(p.negRiskOverride,
                                                 Def(Val(cached).negRisk))]]
             ELSE [path |-> "miss", out |-> NoMeta]

\* kit.ts:331-345: resolveTokenMeta after getOrderBook returned ob; nowRead is
\* the Date.now() of line 322, read before the await.
resolveTokenMetaSettle(p, ob, nowRead) ==
    LET tickSize == IF IsDef(Field(ob, "tick_size")) THEN Val(Field(ob, "tick_size"))
                    ELSE p.tickSizeOverride
        negRisk == Coalesce(Field(ob, "neg_risk"), p.negRiskOverride)
        store == tickSize # <<>> /\ IsDef(negRisk)
    IN  [ store |-> store,
          entry |-> IF store
                    THEN Def([tickSize |-> tickSize, negRisk |-> Val(negRisk),
                              fetchedAtMs |-> nowRead])
                    ELSE Undefined,
          out |-> [tickSize |-> tickSize, negRisk |-> negRisk] ]

-----------------------------------------------------------------------------
(* Order construction: kit.ts:350-644 *)

\* o ?? d
OrDefault(o, d) == IF IsDef(o) THEN Val(o) ELSE d
\* truthiness of an optional number and of an optional boolean
TruthyNum(o) == IsDef(o) /\ Val(o) # 0
TruthyBool(o) == IsDef(o) /\ Val(o)

Min(a, b) == IF a <= b THEN a ELSE b
Max(a, b) == IF a >= b THEN a ELSE b

\* What a stretch of code between two suspension points ends with: a return,
\* or a collaborator call that is awaited.
Return(result) == [tag |-> "return", result |-> Def(result), fn |-> "", arg |-> Undefined]
Await(fn, arg) == [tag |-> "await", result |-> Undefined, fn |-> fn, arg |-> Def(arg)]

\* kit.ts:364-372
LimitMetaArgs(req) ==
    [ tokenId |-> req.tokenId,
      mode |-> OrDefault(req.mode, "auto"),
      needTickSize |-> OrDefault(req.tickSizeMode, "none") # "none",
      needNegRisk |-> ~IsDef(req.negRisk),
      tickSizeOverride |-> req.tickSize,
      negRiskOverride |-> req.negRisk ]

\* kit.ts:550-558
MarketMetaArgs(req) ==
    [ tokenId |-> req.tokenId,
      mode |-> OrDefault(req.mode, "auto"),
      needTickSize |-> OrDefault(req.tickSizeMode, "none") # "none" /\ IsDef(req.price),
      needNegRisk |-> ~IsDef(req.negRisk),
      tickSizeOverride |-> req.tickSize,
      negRiskOverride |-> req.negRisk ]

\* OrderOptions with what resolveTokenMeta returned taken first
OrderOptionsFromMeta(req, meta) ==
    [negRisk |-> IF IsDef(meta.negRisk) THEN meta.negRisk ELSE req.negRisk]

\* kit.ts:375-380 and 561-566: options.negRisk, absent when unresolved
OrderOptions(req, meta) ==
    [negRisk |-> IF IsDef(req.negRisk) THEN req.negRisk ELSE meta.negRisk]

\* applyTick validating the price only when tickRounding is left at "nearest"
applyTickValidatingNearestOnly(req, meta, price) ==
    LET tickSizeMode == OrDefault(req.tickSizeMode, "none")
        tickRounding == OrDefault(req.tickRounding, "nearest")
        tick == IF meta.tickSize # <<>> THEN meta.tickSize ELSE req.tickSize
        aligned == alignPriceToTick(price, tick, tickRounding)
    IN  IF tickSizeMode = "none" THEN [ok |-> TRUE, price |-> price, result |-> EmptyResult]
        ELSE IF tick = <<>>
        THEN [ok |-> FALSE, price |-> price,
              result |-> Failure("INVALID_ORDER_MIN_TICK_SIZE", MsgMissingTick)]
        ELSE IF tickSizeMode = "validate" /\ aligned # price /\ tickRounding = "nearest"
        THEN [ok |-> FALSE, price |-> price,
              result |-> Failure("INVALID_ORDER_MIN_TICK_SIZE", MsgBreaksTick)]
        ELSE [ok |-> TRUE, price |-> aligned, result |-> EmptyResult]

\* kit.ts:382-401.  Prices differ by whole multiples of 1/PriceUnit, so
\* Math.abs(aligned - price) > 1e-12 is aligned # price.
applyTick(req, meta, price) ==
    LET tickSizeMode == OrDefault(req.tickSizeMode, "none")
        tickRounding == OrDefault(req.tickRounding, "nearest")
        tick == IF meta.tickSize # <<>> THEN meta.tickSize ELSE req.tickSize
        aligned == alignPriceToTick(price, tick, tickRounding)
    IN  IF tickSizeMode = "none" THEN [ok |-> TRUE, price |-> price, result |-> EmptyResult]
        ELSE IF tick = <<>>
        THEN [ok |-> FALSE, price |-> price,
              result |-> Failure("INVALID_ORDER_MIN_TICK_SIZE", MsgMissingTick)]
        ELSE IF tickSizeMode = "validate" /\ aligned # price
        THEN [ok |-> FALSE, price |-> price,
              result |-> Failure("INVALID_ORDER_MIN_TICK_SIZE", MsgBreaksTick)]
        ELSE [ok |-> TRUE, price |-> aligned, result |-> EmptyResult]

\* kit.ts:357
LimitOrderType(req) == IF OrDefault(req.timeInForce, "GTC") = "GTD" THEN "GTD" ELSE "GTC"

\* kit.ts:433-449 and 489-505: the order handed to createAndPostOrder
LimitSubmit(req, meta, price) ==
    Await("createAndPostOrder",
          [ order |-> [ tokenID |-> req.tokenId,
                        price |-> Def(price),
                        size |-> req.size,
                        side |-> req.side,
                        feeRateBps |-> 0,
                        expiration |-> IF LimitOrderType(req) = "GTD"
                                       THEN OrDefault(req.expirationUnixSeconds, 0)
                                       ELSE 0 ],
            options |-> OrderOptions(req, meta),
            orderType |-> LimitOrderType(req),
            deferExec |-> OrDefault(req.deferExec, FALSE) ])

\* kit.ts:430-431 and 486-487 followed by the submission
LimitTickThenSubmit(req, meta, price) ==
    LET maybeAligned == applyTick(req, meta, price)
    IN  IF ~maybeAligned.ok THEN Return(maybeAligned.result)
        ELSE LimitSubmit(req, meta, maybeAligned.price)

\* kit.ts:375-415 and 478-505: createLimitOrder from the return of
\* resolveTokenMeta to its next await or return
createLimitOrderAfterMeta(req, meta) ==
    IF LimitOrderType(req) = "GTD" /\ ~TruthyNum(req.expirationUnixSeconds)
    THEN Return(Failure("INVALID_ORDER_EXPIRATION", MsgInvalidExpiration))
    ELSE IF TruthyBool(req.isMarketOrder)
    THEN Await("getPrice", [tokenId |-> req.tokenId, side |-> req.side])
    ELSE IF ~IsDef(req.price)
    THEN Return(Failure("INVALID_ORDER_ERROR", MsgPriceRequired))
    ELSE LimitTickThenSubmit(req, meta, Val(req.price))

\* AggressivePrice taking any quote that parses as a number
AggressivePriceOfAnyNumber(side, settled) ==
    LET priceStr == Field(settled.value, "price")
        marketPrice == IF IsDef(priceStr) THEN ParseDecimal(Val(priceStr)) ELSE NaN
        valid == settled.ok /\ IsDef(settled.value) /\ marketPrice # NaN
        m == (marketPrice[1] * PriceUnit) \div marketPrice[2]
    IN  IF valid
        THEN IF side = "BUY" THEN Min((99 * PriceUnit) \div 100, (m * 105) \div 100)
             ELSE Max(PriceUnit \div 100, (m * 95) \div 100)
        ELSE IF side = "BUY" THEN (99 * PriceUnit) \div 100 ELSE PriceUnit \div 100

\* AggressivePrice without the 0.99 cap and the 0.01 floor
AggressivePriceUnclamped(side, settled) ==
    LET priceStr == Field(settled.value, "price")
        marketPrice == IF IsDef(priceStr) THEN ParseDecimal(Val(priceStr)) ELSE NaN
        valid == /\ settled.ok
                 /\ IsDef(settled.value)
                 /\ marketPrice # NaN
                 /\ marketPrice[1] > 0
                 /\ marketPrice[1] < marketPrice[2]
        m == (marketPrice[1] * PriceUnit) \div marketPrice[2]
    IN  IF valid
        THEN IF side = "BUY" THEN (m * 105) \div 100 ELSE (m * 95) \div 100
        ELSE IF side = "BUY" THEN (99 * PriceUnit) \div 100 ELSE PriceUnit \div 100

\* kit.ts:416-428: the aggressive price from the settled getPrice call.
\* settled.ok is FALSE when the call threw.
AggressivePrice(side, settled) ==
    LET priceStr == Field(settled.value, "price")
        marketPrice == IF IsDef(priceStr) THEN ParseDecimal(Val(priceStr)) ELSE NaN
        valid == /\ settled.ok
                 /\ IsDef(settled.value)
                 /\ marketPrice # NaN
                 /\ marketPrice[1] > 0
                 /\ marketPrice[1] < marketPrice[2]
        m == (marketPrice[1] * PriceUnit) \div marketPrice[2]
    IN  IF valid
        THEN IF side = "BUY" THEN Min((99 * PriceUnit) \div 100, (m * 105) \div 100)
             ELSE Max(PriceUnit \div 100, (m * 95) \div 100)
        ELSE IF side = "BUY" THEN (99 * PriceUnit) \div 100 ELSE PriceUnit \div 100

\* kit.ts:416-449: createLimitOrder from the settling of getPrice on
createLimitOrderAfterPrice(req, meta, settled) ==
    LimitTickThenSubmit(req, meta, AggressivePrice(req.side, settled))

\* kit.ts:568-587: the tick handling of createMarketOrder
marketApplyTick(req, meta) ==
    LET tickSizeMode == OrDefault(req.tickSizeMode, "none")
        tickRounding == OrDefault(req.tickRounding, "nearest")
        tick == IF meta.tickSize # <<>> THEN meta.tickSize ELSE req.tickSize
        aligned == alignPriceToTick(Val(req.price), tick, tickRounding)
    IN  IF IsDef(req.price) /\ tickSizeMode # "none"
        THEN IF tick = <<>>
             THEN [ok |-> FALSE, price |-> req.price,
                   result |-> Failure("INVALID_ORDER_MIN_TICK_SIZE", MsgMissingTick)]
             ELSE IF tickSizeMode = "validate" /\ aligned # Val(req.price)
             THEN [ok |-> FALSE, price |-> req.price,
                   result |-> Failure("INVALID_ORDER_MIN_TICK_SIZE", MsgBreaksTick)]
             ELSE [ok |-> TRUE, price |-> Def(aligned), result |-> EmptyResult]
        ELSE [ok |-> TRUE, price |-> req.price, result |-> EmptyResult]

\* createMarketOrderAfterMeta taking amountUsdc as the amount on either side
createMarketOrderAfterMetaInUsdc(req, meta) ==
    LET ticked == marketApplyTick(req, meta)
        amount == req.amountUsdc
    IN  IF ~ticked.ok THEN Return(ticked.result)
        ELSE IF ~IsDef(amount) \/ Val(amount) <= 0
        THEN Return(Failure("INVALID_ORDER_ERROR",
                            IF req.side = "BUY" THEN MsgAmountUsdcRequired
                            ELSE MsgAmountSharesRequired))
        ELSE Await("createAndPostMarketOrder",
                   [ order |-> [ tokenID |-> req.tokenId,
                                 amount |-> Val(amount),
                                 side |-> req.side,
                                 price |-> ticked.price ],
                     options |-> OrderOptions(req, meta),
                     orderType |-> OrDefault(req.orderType, "FOK"),
                     deferExec |-> OrDefault(req.deferExec, FALSE) ])

\* kit.ts:561-617: createMarketOrder from the return of resolveTokenMeta to
\* its await or return
createMarketOrderAfterMeta(req, meta) ==
    LET ticked == marketApplyTick(req, meta)
        amount == IF req.side = "BUY" THEN req.amountUsdc ELSE req.amountShares
    IN  IF ~ticked.ok THEN Return(ticked.result)
        ELSE IF ~IsDef(amount) \/ Val(amount) <= 0
        THEN Return(Failure("INVALID_ORDER_ERROR",
                            IF req.side = "BUY" THEN MsgAmountUsdcRequired
                            ELSE MsgAmountSharesRequired))
        ELSE Await("createAndPostMarketOrder",
                   [ order |-> [ tokenID |-> req.tokenId,
                                 amount |-> Val(amount),
                                 side |-> req.side,
                                 price |-> ticked.price ],
                     options |-> OrderOptions(req, meta),
                     orderType |-> OrDefault(req.orderType, "FOK"),
                     deferExec |-> OrDefault(req.deferExec, FALSE) ])

\* SubmitOutcome without the check for an order identifier
SubmitOutcomeTrustingSuccess(settled) ==
    IF settled.ok
    THEN normalizeOrderResponse(settled.value)
    ELSE LET err == settled.error
             httpStatus == Field(Field(err, "response"), "status")
             data == Field(Field(err, "response"), "data")
             errorMsg == Coalesce(Field(data, "errorMsg"),
                           Coalesce(Field(data, "error"),
                             Coalesce(Field(err, "message"), Def(MsgRequestFailed))))
         IN  [EmptyResult EXCEPT
                 !.errorCode = Def(IF TruthyNum(httpStatus) THEN "HTTP_ERROR" ELSE "UNKNOWN"),
                 !.errorMsg = errorMsg,
                 !.raw = Def([httpStatus |-> httpStatus, data |-> data])]

\* SubmitOutcome taking the exception's message before the response data
SubmitOutcomeMessageFirst(settled) ==
    IF settled.ok
    THEN LET normalized == normalizeOrderResponse(settled.value)
         IN  IF ~normalized.success THEN normalized
             ELSE IF ~IsDef(normalized.orderId)
             THEN [EmptyResult EXCEPT !.errorCode = Def("UNKNOWN"),
                                      !.errorMsg = Def(MsgSubmissionFailed),
                                      !.raw = normalized.raw]
             ELSE normalized
    ELSE LET err == settled.error
             httpStatus == Field(Field(err, "response"), "status")
             data == Field(Field(err, "response"), "data")
             errorMsg == Coalesce(Field(err, "message"),
                           Coalesce(Field(data, "errorMsg"),
                             Coalesce(Field(data, "error"), Def(MsgRequestFailed))))
         IN  [EmptyResult EXCEPT
                 !.errorCode = Def(IF TruthyNum(httpStatus) THEN "HTTP_ERROR" ELSE "UNKNOWN"),
                 !.errorMsg = errorMsg,
                 !.raw = Def([httpStatus |-> httpStatus, data |-> data])]

\* kit.ts:506-531 (the same code at 450-475 and 618-643): the result of an
\* order call from the settled submission.  settled.ok is FALSE when the
\* collaborator threw settled.error.
SubmitOutcome(settled) ==
    IF settled.ok
    THEN LET normalized == normalizeOrderResponse(settled.value)
         IN  IF ~normalized.success THEN normalized
             ELSE IF ~IsDef(normalized.orderId)
             THEN [EmptyResult EXCEPT !.errorCode = Def("UNKNOWN"),
                                      !.errorMsg = Def(MsgSubmissionFailed),
                                      !.raw = normalized.raw]
             ELSE normalized
    ELSE LET err == settled.error
             httpStatus == Field(Field(err, "response"), "status")
             data == Field(Field(err, "response"), "data")
             errorMsg == Coalesce(Field(data, "errorMsg"),
                           Coalesce(Field(data, "error"),
                             Coalesce(Field(err, "message"), Def(MsgRequestFailed))))
         IN  [EmptyResult EXCEPT
                 !.errorCode = Def(IF TruthyNum(httpStatus) THEN "HTTP_ERROR" ELSE "UNKNOWN"),
                 !.errorMsg = errorMsg,
                 !.raw = Def([httpStatus |-> httpStatus, data |-> data])]

-----------------------------------------------------------------------------
(* Bounds and inputs *)

\* Invocations that may be in flight at once
MaxCalls == 2
\* How many ms the clock runs past 0 and past the cache TTL
MaxSlack == 1
\* How many fragments the messages given to mapClobErrorMsgToCode are made of
MaxFragments == 2
\* alignPriceToTick is explored on the prices m * 10^e, m <= MaxMantissa
MaxMantissa == 250

Calls == 1..MaxCalls

Tokens == {"tokenA", "tokenB"}
\* The token the order requests name
OrderTokens == {"tokenA"}

\* The tick sizes requests and order books carry in the order flows
OrderTicks == { <<"0", ".", "1">>, <<"0", ".", "0", "1">> }

OptBool == {Undefined, Def(TRUE), Def(FALSE)}
\* req.negRisk in the order requests: absent, or the falsy boolean
RequestNegRisk == {Undefined, Def(FALSE)}

\* 0.12 and 0.127
OrderPrices == {(12 * PriceUnit) \div 100, (127 * PriceUnit) \div 1000}

\* CreateLimitOrderRequest (types.ts:160-210); an expiration comes with GTD
LimitRequests ==
  { req \in
    [ tokenId : OrderTokens,
      size : {10},
      price : {Undefined} \cup {Def(x) : x \in OrderPrices},
      side : {"BUY", "SELL"},
      mode : {Undefined, Def("manual")},
      negRisk : RequestNegRisk,
      isMarketOrder : {Undefined, Def(TRUE)},
      timeInForce : {Undefined, Def("GTD")},
      expirationUnixSeconds : {Undefined, Def(1893456000)},
      deferExec : {Undefined},
      tickSizeMode : {Undefined, Def("validate"), Def("round")},
      tickRounding : {Undefined, Def("down"), Def("up")},
      tickSize : {<<>>} \cup OrderTicks ] :
    IsDef(req.expirationUnixSeconds) => IsDef(req.timeInForce) }

\* CreateMarketOrderRequest (types.ts:214-262)
MarketRequests ==
    [ tokenId : OrderTokens,
      side : {"BUY", "SELL"},
      mode : {Undefined, Def("manual")},
      negRisk : RequestNegRisk,
      amountUsdc : {Undefined, Def(0), Def(10)},
      amountShares : {Undefined, Def(10)},
      price : {Undefined} \cup {Def(x) : x \in OrderPrices},
      orderType : {Undefined},
      deferExec : {Undefined},
      tickSizeMode : {Undefined, Def("validate"), Def("round")},
      tickRounding : {Undefined, Def("up")},
      tickSize : {<<>>} \cup OrderTicks ]

\* The arguments createLimitOrder and createMarketOrder give resolveTokenMeta
\* (kit.ts:364-372, 550-558): needNegRisk is set exactly when no override is.
ResolveParams ==
    { p \in [ tokenId : Tokens,
              mode : {"auto", "manual"},
              needTickSize : BOOLEAN,
              needNegRisk : BOOLEAN,
              tickSizeOverride : {<<>>, <<"0", ".", "1">>},
              negRiskOverride : RequestNegRisk ] :
        p.needNegRisk = ~IsDef(p.negRiskOverride) }

\* What getOrderBook returns to the resolveTokenMeta runs of SpecSeq
SeqBooks ==
    {Undefined} \cup
    { Def(ob) : ob \in [ tick_size : {Undefined, Def(<<"0", ".", "0", "1">>)},
                         neg_risk : {Undefined, Def(TRUE)} ] }

\* What getOrderBook may return: any of tick_size and neg_risk may be missing
OrderBooks ==
    {Undefined} \cup
    { Def(ob) : ob \in [ tick_size : {Undefined} \cup {Def(t) : t \in OrderTicks},
                         neg_risk : OptBool ] }

\* What getPrice may return: nothing, no price, "abc", "0", "1", "0.5",
\* "0.96", "0.004"
PriceQuotes ==
    {Undefined, Def([price |-> Undefined])} \cup
    { Def([price |-> Def(s)]) :
        s \in { <<"a", "b", "c">>, <<"0">>, <<"1">>, <<"0", ".", "5">>,
                <<"0", ".", "9", "6">>, <<"0", ".", "0", "0", "4">> } }

\* What createAndPostOrder / createAndPostMarketOrder may return
RawResponses ==
    {Undefined} \cup
    { Def(res) : res \in [ success : OptBool,
                           orderID : {Undefined, Def(""), Def("0xA")},
                           orderId : {Undefined, Def("0xB")},
                           errorMsg : {Undefined, Def(<<>>), Def(SampleTickSize)},
                           error : {Undefined, Def(SampleServerExploded)},
                           status : {Def("live")},
                           transactionsHashes : {Undefined},
                           transactionHashes : {Undefined},
                           orderHashes : {Undefined} ] }

\* What createAndPostOrder / createAndPostMarketOrder may throw
ThrownErrors ==
    { Undefined,
      Def([response |-> Undefined, message |-> Undefined]),
      Def([response |-> Undefined, message |-> Def(SampleTimeout)]),
      Def([response |-> Def([status |-> Def(400), data |-> Undefined]),
           message |-> Def(SampleTimeout)]),
      Def([response |-> Def([status |-> Def(400),
                             data |-> Def([errorMsg |-> Undefined,
                                           error |-> Def(SampleBalance)])]),
           message |-> Def(SampleTimeout)]),
      Def([response |-> Def([status |-> Undefined,
                             data |-> Def([errorMsg |-> Def(SampleTickSize),
                                           error |-> Def(SampleBalance)])]),
           message |-> Undefined]) }

Returned(value) == [ok |-> TRUE, value |-> value, error |-> Undefined]
Threw(error) == [ok |-> FALSE, value |-> Undefined, error |-> error]

-----------------------------------------------------------------------------
(* Invocations.  An action is the code between two suspension points: from   *)
(* the call, or from the settling of the awaited collaborator call, to the   *)
(* next await, return or throw.                                              *)
(*                                                                           *)
(* call[c].req, .cached, .ob and .meta are the invocation's locals: the     *)
(* request, the entry read at kit.ts:321, the order book of kit.ts:331 and   *)
(* the resolved metadata; .quote is how the getPrice call of kit.ts:415      *)
(* settled.  They are kept while the code can still read                     *)
(* them: once the submission is awaited, only its response is read           *)
(* (kit.ts:506-531), so the step that suspends the invocation on the         *)
(* submission (pc "submit" to "await_submit") lets go of them.  call[c].net  *)
(* lists the collaborator calls made so far and call[c].pending is the one   *)
(* in flight.                                                                *)

IdleCall ==
    [ pc |-> "idle", kind |-> "none", req |-> Undefined, path |-> "",
      nowRead |-> Undefined, cached |-> Undefined, ob |-> Undefined,
      meta |-> NoMeta, stored |-> FALSE, quote |-> Undefined,
      pending |-> Undefined, net |-> <<>>, settled |-> Undefined,
      result |-> Undefined ]

MetaArgsOf(kind, req) ==
    IF kind = "limit" THEN LimitMetaArgs(req)
    ELSE IF kind = "market" THEN MarketMetaArgs(req)
    ELSE req

\* What follows the return of resolveTokenMeta in the caller
AfterMeta(kind, req, meta) ==
    IF kind = "limit" THEN createLimitOrderAfterMeta(req, meta)
    ELSE IF kind = "market" THEN createMarketOrderAfterMeta(req, meta)
    ELSE Return(meta)

\* The invocation record after a stretch of code ending with step
Proceed(rec, step) ==
    IF step.tag = "return"
    THEN [rec EXCEPT !.pc = "returned", !.result = step.result, !.pending = Undefined]
    ELSE [rec EXCEPT !.pc = IF step.fn = "getPrice" THEN "await_getPrice"
                            ELSE "submit",
                     !.pending = Def([fn |-> step.fn, arg |-> step.arg]),
                     !.net = Append(@, step.fn)]

\* kit.ts:354-373 (539-559) with resolveTokenMeta's 304-331
Invoke(c, kind, req) ==
    LET p == MetaArgsOf(kind, req)
        s == resolveTokenMetaSync(p, tokenMetaCache, now)
        base == [IdleCall EXCEPT
                    !.kind = kind, !.req = Def(req), !.path = s.path,
                    !.nowRead = IF s.path \in {"hit", "miss"} THEN Def(now)
                                ELSE Undefined,
                    !.cached = IF s.path \in {"hit", "miss"}
                               THEN tokenMetaCache[p.tokenId]
                               ELSE Undefined]
    IN  /\ call[c].pc = "idle"
        /\ call' = [call EXCEPT ![c] =
                IF s.path = "miss"
                THEN [base EXCEPT
                        !.pc = "await_getOrderBook",
                        !.pending = Def([fn |-> "getOrderBook",
                                         arg |-> Def([tokenId |-> p.tokenId])]),
                        !.net = <<"getOrderBook">>]
                ELSE Proceed([base EXCEPT !.meta = s.out], AfterMeta(kind, req, s.out))]
        /\ UNCHANGED <<tokenMetaCache, now, prev, beyondKit>>

\* Invocation c is suspended at pc
Awaits(c, pc) == call[c].pc = pc

\* One invocation at a time, in slot 1
Sequential(c) == c = 1 /\ \A d \in Calls : call[d].pc = "idle"

CreateLimitOrder(c, req) == Invoke(c, "limit", req)
CreateMarketOrder(c, req) == Invoke(c, "market", req)
ResolveTokenMeta(c, p) == Invoke(c, "resolve", p)

\* GetOrderBookReturns stamping the entry with the time of the write
GetOrderBookReturnsStampedOnReturn(c, ob) ==
    LET rec == call[c]
        req == Val(rec.req)
        p == MetaArgsOf(rec.kind, req)
        r == resolveTokenMetaSettle(p, ob, now)
    IN  /\ rec.pc = "await_getOrderBook"
        /\ tokenMetaCache' = IF r.store
                             THEN [tokenMetaCache EXCEPT ![p.tokenId] = r.entry]
                             ELSE tokenMetaCache
        /\ call' = [call EXCEPT ![c] =
                Proceed([rec EXCEPT !.ob = Def(ob), !.meta = r.out,
                                    !.stored = r.store, !.pending = Undefined],
                        AfterMeta(rec.kind, req, r.out))]
        /\ UNCHANGED <<now, prev, beyondKit>>

\* GetOrderBookReturns leaving alone an entry another run wrote meanwhile
GetOrderBookReturnsKeepingFirstWrite(c, ob) ==
    LET rec == call[c]
        req == Val(rec.req)
        p == MetaArgsOf(rec.kind, req)
        r == resolveTokenMetaSettle(p, ob, Val(rec.nowRead))
    IN  /\ rec.pc = "await_getOrderBook"
        /\ tokenMetaCache' = IF r.store /\ tokenMetaCache[p.tokenId] = rec.cached
                             THEN [tokenMetaCache EXCEPT ![p.tokenId] = r.entry]
                             ELSE tokenMetaCache
        /\ call' = [call EXCEPT ![c] =
                Proceed([rec EXCEPT !.ob = Def(ob), !.meta = r.out,
                                    !.stored = r.store, !.pending = Undefined],
                        AfterMeta(rec.kind, req, r.out))]
        /\ UNCHANGED <<now, prev, beyondKit>>

\* kit.ts:331-345, then the caller's code: getOrderBook returned ob
GetOrderBookReturns(c, ob) ==
    LET rec == call[c]
        req == Val(rec.req)
        p == MetaArgsOf(rec.kind, req)
        r == resolveTokenMetaSettle(p, ob, Val(rec.nowRead))
    IN  /\ rec.pc = "await_getOrderBook"
        /\ tokenMetaCache' = IF r.store
                             THEN [tokenMetaCache EXCEPT ![p.tokenId] = r.entry]
                             ELSE tokenMetaCache
        /\ call' = [call EXCEPT ![c] =
                Proceed([rec EXCEPT !.ob = Def(ob), !.meta = r.out,
                                    !.stored = r.store, !.pending = Undefined],
                        AfterMeta(rec.kind, req, r.out))]
        /\ UNCHANGED <<now, prev, beyondKit>>

\* kit.ts:331 and 373 (559): getOrderBook threw; nothing catches it
GetOrderBookThrows(c) ==
    /\ call[c].pc = "await_getOrderBook"
    /\ call' = [call EXCEPT ![c] = [@ EXCEPT !.pc = "thrown", !.pending = Undefined]]
    /\ UNCHANGED <<tokenMetaCache, now, prev, beyondKit>>

\* kit.ts:415-449: getPrice settled, returning a quote or throwing
GetPriceSettles(c, settled) ==
    LET rec == call[c]
    IN  /\ rec.pc = "await_getPrice"
        /\ call' = [call EXCEPT ![c] =
                Proceed([rec EXCEPT !.pending = Undefined, !.quote = Def(settled)],
                        createLimitOrderAfterPrice(Val(rec.req), rec.meta, settled))]
        /\ UNCHANGED <<tokenMetaCache, now, prev, beyondKit>>

GetPriceReturns(c, quote) == GetPriceSettles(c, Returned(quote))
GetPriceThrows(c) == GetPriceSettles(c, Threw(Undefined))

\* kit.ts:500 (444, 612): the invocation is suspended on the submission it
\* has just made
AwaitSubmission(c) ==
    /\ call[c].pc = "submit"
    /\ call' = [call EXCEPT ![c] =
            [@ EXCEPT !.pc = "await_submit", !.req = Undefined, !.path = "",
                      !.nowRead = Undefined, !.cached = Undefined,
                      !.ob = Undefined, !.meta = NoMeta, !.stored = FALSE,
                      !.quote = Undefined]]
    /\ UNCHANGED <<tokenMetaCache, now, prev, beyondKit>>

\* kit.ts:506-531 (450-475, 618-643): the submission settled
SubmitSettles(c, settled) ==
    LET rec == call[c]
    IN  /\ rec.pc = "await_submit"
        /\ call' = [call EXCEPT ![c] =
                [rec EXCEPT !.pc = "returned", !.pending = Undefined,
                            !.settled = Def(settled),
                            !.result = Def(SubmitOutcome(settled))]]
        /\ UNCHANGED <<tokenMetaCache, now, prev, beyondKit>>

\* SubmitThrows sending the order again after a failure
SubmitThrowsRetrying(c, err) ==
    /\ call[c].pc = "await_submit"
    /\ Len(call[c].net) < 4
    /\ call' = [call EXCEPT ![c] =
            [@ EXCEPT !.net = Append(@, Val(call[c].pending).fn)]]
    /\ UNCHANGED <<tokenMetaCache, now, prev, beyondKit>>

SubmitReturns(c, res) == SubmitSettles(c, Returned(res))
SubmitThrows(c, err) == SubmitSettles(c, Threw(err))

\* The caller is done with the invocation; prev remembers the last run of
\* resolveTokenMeta that consulted the cache.
Forget(c) ==
    LET rec == call[c]
    IN  /\ rec.pc \in {"returned", "thrown"}
        /\ call' = [call EXCEPT ![c] = IdleCall]
        /\ prev' = IF rec.kind = "resolve" /\ IsDef(rec.nowRead)
                   THEN Def([ tokenId |-> Val(rec.req).tokenId,
                              startedAt |-> Val(rec.nowRead),
                              lookups |-> Len(rec.net),
                              stored |-> rec.stored ])
                   ELSE prev
        /\ UNCHANGED <<tokenMetaCache, now, beyondKit>>

\* Time passes, by 1 ms or by the TTL, to the instants within MaxSlack ms
\* after 0 and after the TTL
ClockSteps == {1, DEFAULT_META_CACHE_TTL_MS}
Tick(d) ==
    /\ now + d <= DEFAULT_META_CACHE_TTL_MS + MaxSlack
    /\ (now + d) % DEFAULT_META_CACHE_TTL_MS <= MaxSlack
    /\ now' = now + d
    /\ UNCHANGED <<tokenMetaCache, call, prev, beyondKit>>

-----------------------------------------------------------------------------
(* alignPriceToTick as a function: apply it, then apply it to its result *)

AlignPrices ==
    { m * Pow10(e) : m \in 1..MaxMantissa, e \in 0..3 } \cap 1..(PriceUnit - 1)

AlignInputs == [price : AlignPrices, tick : TickSizes, rounding : TickRoundingModes]

IdleAlign == [price |-> 1, tick |-> <<"0", ".", "1">>, rounding |-> "nearest"]

Align ==
    /\ Len(alignOut) < 2
    /\ alignOut' = Append(alignOut,
            alignPriceToTick(IF alignOut = <<>> THEN alignIn.price
                             ELSE alignOut[Len(alignOut)],
                             alignIn.tick, alignIn.rounding))
    /\ UNCHANGED <<alignIn, beyondAlign>>

-----------------------------------------------------------------------------
(* Approval status: approvals.ts:45-56, 90-142 *)

\* Allowances are held in units of 1000 base units of USDC.e
AllowanceUnit == 1000

\* redeem.ts:54: BigInt("1000000000000") base units
DEFAULT_USDC_APPROVAL_THRESHOLD == (1000000 \div AllowanceUnit) * 1000000

\* approvals.ts:45-50, by name
USDC_E_SPENDERS ==
    <<"CTF Contract", "Neg Risk Adapter", "CTF Exchange", "Neg Risk CTF Exchange">>

\* approvals.ts:52-56, by name
OUTCOME_TOKEN_SPENDERS ==
    <<"CTF Exchange", "Neg Risk Exchange", "Neg Risk Adapter">>

Names(spenders) == { spenders[i] : i \in DOMAIN spenders }

\* A Record<string, boolean>: {} and record[key] = value
EmptyRecord == <<>>
Put(record, key, value) == (key :> value) @@ record

\* Object.values(record).every(Boolean)
Every(record) == \A key \in DOMAIN record : record[key]

\* approvals.ts:137-139 with only the allowances looked at
AllApprovedByAllowancesOnly(usdcApprovals, outcomeTokenApprovals) ==
    Every(usdcApprovals)

\* approvals.ts:137-139
AllApproved(usdcApprovals, outcomeTokenApprovals) ==
    Every(usdcApprovals) /\ Every(outcomeTokenApprovals)

\* No invocation of checkAllApprovals under way.  allowanceReads and
\* isApprovedReads record how each read ended; the rest are the locals.
IdleApproval ==
    [ pc |-> "idle", params |-> Undefined, threshold |-> Undefined,
      allowanceReads |-> EmptyRecord, isApprovedReads |-> EmptyRecord,
      usdcApprovals |-> EmptyRecord, outcomeTokenApprovals |-> EmptyRecord,
      result |-> Undefined ]

\* params.threshold, in AllowanceUnit: absent, 0 and 1000 base units
ApprovalParams == [ threshold : {Undefined, Def(0), Def(1)} ]

\* What allowance() may report
Allowances ==
    {0, DEFAULT_USDC_APPROVAL_THRESHOLD - 1, DEFAULT_USDC_APPROVAL_THRESHOLD}

\* approvals.ts:90-104: up to the await of the allowance reads, all started
CheckAllApprovals(params) ==
    /\ approval.pc = "idle"
    /\ approval' =
          [IdleApproval EXCEPT
              !.pc = "await_allowance",
              !.params = Def(params),
              !.threshold = IF IsDef(params.threshold) THEN params.threshold
                            ELSE Def(DEFAULT_USDC_APPROVAL_THRESHOLD)]
    /\ UNCHANGED beyondApproval

\* AfterAllowances going on as soon as one allowance read has settled
AfterAllowancesOnFirst(usdcApprovals) == "await_isApprovedForAll"

\* approvals.ts:120-141: the isApprovedForAll reads are started once every
\* allowance read has settled
AfterAllowances(usdcApprovals) ==
    IF DOMAIN usdcApprovals = Names(USDC_E_SPENDERS) THEN "await_isApprovedForAll"
    ELSE "await_allowance"

\* approvals.ts:106-116: the allowance read of one spender settled
AllowanceSettles(name, outcome, approved) ==
    /\ approval.pc = "await_allowance"
    /\ name \notin DOMAIN approval.usdcApprovals
    /\ LET usdcApprovals == Put(approval.usdcApprovals, name, approved)
       IN  approval' =
              [approval EXCEPT
                  !.usdcApprovals = usdcApprovals,
                  !.allowanceReads = Put(@, name, outcome),
                  !.pc = AfterAllowances(usdcApprovals)]
    /\ UNCHANGED beyondApproval

\* approvals.ts:107-113
AllowanceReturns(name, allowance) ==
    AllowanceSettles(name, Returned(allowance),
                     allowance >= Val(approval.threshold))

\* approvals.ts:114-116 with the spender taken as approved
AllowanceThrowsApproving(name) == AllowanceSettles(name, Threw(Undefined), TRUE)

\* approvals.ts:114-116
AllowanceThrows(name) == AllowanceSettles(name, Threw(Undefined), FALSE)

\* approvals.ts:122-141: the isApprovedForAll read of one spender settled; with
\* the last one the status is computed and returned
IsApprovedSettles(name, outcome, approved) ==
    /\ approval.pc = "await_isApprovedForAll"
    /\ name \notin DOMAIN approval.outcomeTokenApprovals
    /\ LET outcomeTokenApprovals ==
               Put(approval.outcomeTokenApprovals, name, approved)
           settled == [approval EXCEPT
                          !.outcomeTokenApprovals = outcomeTokenApprovals,
                          !.isApprovedReads = Put(@, name, outcome)]
       IN  approval' =
              IF DOMAIN outcomeTokenApprovals = Names(OUTCOME_TOKEN_SPENDERS)
              THEN [settled EXCEPT
                      !.pc = "returned",
                      !.result =
                          Def([ allApproved |->
                                    AllApproved(approval.usdcApprovals,
                                                outcomeTokenApprovals),
                                usdcApprovals |-> approval.usdcApprovals,
                                outcomeTokenApprovals |-> outcomeTokenApprovals ])]
              ELSE settled
    /\ UNCHANGED beyondApproval

\* approvals.ts:123-129
IsApprovedReturns(name, isApproved) ==
    IsApprovedSettles(name, Returned(isApproved), isApproved)

\* approvals.ts:130-132
IsApprovedThrows(name) == IsApprovedSettles(name, Threw(Undefined), FALSE)

-----------------------------------------------------------------------------
(* Session bootstrap: kit.ts:120-171, 192-262 *)

\* types.ts:35-43
TradingSessionSteps ==
    << "init_relay_client", "derive_safe", "check_safe_deployed", "deploy_safe",
       "get_api_credentials", "check_approvals", "set_approvals", "complete" >>

\* params.onProgress: absent, or a callback that returns every time, or one
\* that throws when called with one of the steps
Observers ==
    {Undefined, Def([throwsAt |-> Undefined])}
        \cup { Def([throwsAt |-> Def(step)]) : step \in Names(TradingSessionSteps) }

\* params of initializeTradingSession (kit.ts:216-220)
SessionParams == [ onProgress : Observers, autoDeploySafe : {Undefined, Def(TRUE), Def(FALSE)} ]

\* deriveSafeAddress() of the EOA, and another address
DerivedSafe == "0xSafe"
OtherSafe == "0xOther"
EoaAddress == "0xEoa"

\* What getBytecode may report: undefined, "", "0x", "0x0" and real code
Bytecodes ==
    { Undefined, Def(<<>>), Def(<<"0", "x">>), Def(<<"0", "x", "0">>),
      Def(<<"0", "x", "6", "0", "8", "0">>) }

\* kit.ts:143
HasCode(code) == IsDef(code) /\ Val(code) # <<"0", "x">> /\ Len(Val(code)) > 2

\* What response.wait() of a deploy may report (kit.ts:148)
DeployResults ==
    { Undefined, Def([proxyAddress |-> Undefined]), Def([proxyAddress |-> Def("")]),
      Def([proxyAddress |-> Def(DerivedSafe)]), Def([proxyAddress |-> Def(OtherSafe)]) }

\* kit.ts:150: result?.proxyAddress is truthy
HasProxyAddress(result) == TruthyStr(Field(result, "proxyAddress"))

\* ApiCredentials (types.ts), and what deriveApiKey / createApiKey may report
DerivedCreds == [key |-> "derived", secret |-> "s", passphrase |-> "p"]
CreatedCreds == [key |-> "created", secret |-> "s", passphrase |-> "p"]
Credentials ==
    { Def(DerivedCreds), Def(CreatedCreds),
      Def([DerivedCreds EXCEPT !.key = ""]), Def([DerivedCreds EXCEPT !.secret = ""]),
      Def([DerivedCreds EXCEPT !.passphrase = ""]) }

\* kit.ts:165: derived?.key && derived?.secret && derived?.passphrase
IsComplete(derived) ==
    /\ IsDef(derived)
    /\ Val(derived).key # ""
    /\ Val(derived).secret # ""
    /\ Val(derived).passphrase # ""

\* The ApprovalStatus checkAllApprovals returns when exactly the reads of
\* deniedUsdc and deniedOutcome were not approved
StatusWith(deniedUsdc, deniedOutcome) ==
    LET usdcApprovals ==
            [name \in Names(USDC_E_SPENDERS) |-> name \notin deniedUsdc]
        outcomeTokenApprovals ==
            [name \in Names(OUTCOME_TOKEN_SPENDERS) |-> name \notin deniedOutcome]
    IN  [ allApproved |-> AllApproved(usdcApprovals, outcomeTokenApprovals),
          usdcApprovals |-> usdcApprovals,
          outcomeTokenApprovals |-> outcomeTokenApprovals ]

\* What checkApprovals may report
ApprovalStatuses ==
    { StatusWith({}, {}), StatusWith({"CTF Contract"}, {}),
      StatusWith({}, {"Neg Risk Adapter"}) }

\* No invocation under way.  log is the sequence of progress events emitted and
\* collaborator calls made; check tells which checkApprovals call is awaited,
\* lastCheck what the last one returned.
IdleSession ==
    [ pc |-> "idle", kind |-> "", onProgress |-> Undefined, autoDeploySafe |-> TRUE,
      log |-> <<>>, safeAddress |-> Undefined, code |-> Undefined,
      deployed |-> Undefined, deployResult |-> Undefined, derived |-> Undefined,
      apiCredentials |-> Undefined, check |-> "", lastCheck |-> Undefined,
      approvalsBefore |-> Undefined,
      approvals |-> Undefined, didSubmitTx |-> Undefined,
      result |-> Undefined, error |-> Undefined ]

Event(step) == [type |-> "event", name |-> step]
CollaboratorCall(name) == [type |-> "call", name |-> name]

\* Rejected with the error noted and the function carrying on
RejectedCarryingOn(s, error) == [s EXCEPT !.error = Def(error)]

\* A throw inside the async function: the promise rejects with error
Rejected(s, error) == [s EXCEPT !.pc = "threw", !.error = Def(error)]

\* onProgress?.({ step, message }): nothing without an observer; the observer's
\* throw is the function's throw
Emitted(s, step) ==
    IF s.pc = "threw" \/ ~IsDef(s.onProgress) THEN s
    ELSE LET told == [s EXCEPT !.log = Append(@, Event(step))]
         IN  IF Val(s.onProgress).throwsAt = Def(step)
             THEN Rejected(told, "observer threw")
             ELSE told

\* await of a collaborator call, unless the function has thrown
Awaiting(s, name, pc) ==
    IF s.pc = "threw" THEN s
    ELSE [s EXCEPT !.log = Append(@, CollaboratorCall(name)), !.pc = pc]

\* kit.ts:216-224: entry up to the await of createRelayClient
InitializeTradingSession(params) ==
    /\ session.pc = "idle"
    /\ LET entered ==
               [IdleSession EXCEPT
                   !.kind = "initializeTradingSession",
                   !.onProgress = params.onProgress,
                   !.autoDeploySafe =
                       IF IsDef(params.autoDeploySafe) THEN Val(params.autoDeploySafe)
                       ELSE TRUE]
       IN  session' =
              Awaiting(Emitted(entered, "init_relay_client"),
                       "createRelayClient", "await_createRelayClient")
    /\ UNCHANGED beyondSession

\* kit.ts:224-230
CreateRelayClientReturns ==
    /\ session.pc = "await_createRelayClient"
    /\ LET derived == Emitted(session, "derive_safe")
           addressed ==
               IF derived.pc = "threw" THEN derived
               ELSE [derived EXCEPT !.safeAddress = Def(DerivedSafe)]
       IN  session' =
              Awaiting(Emitted(addressed, "check_safe_deployed"),
                       "getBytecode", "await_getBytecode")
    /\ UNCHANGED beyondSession

\* kit.ts:224
CreateRelayClientThrows ==
    /\ session.pc = "await_createRelayClient"
    /\ session' = Rejected(session, "createRelayClient threw")
    /\ UNCHANGED beyondSession

\* GetApiCredentials with no get_api_credentials event
GetApiCredentialsUnannounced(s) ==
    Awaiting(s, "deriveApiKey", "await_deriveApiKey")

\* kit.ts:241-242, 157-164
GetApiCredentials(s) ==
    Awaiting(Emitted(s, "get_api_credentials"), "deriveApiKey", "await_deriveApiKey")

\* GetBytecodeReturns with the deploy attempted whatever autoDeploySafe says
GetBytecodeReturnsDeployingAnyway(code) ==
    /\ session.pc = "await_getBytecode"
    /\ LET checked == [session EXCEPT !.code = code, !.deployed = Def(HasCode(code))]
       IN  session' =
              IF HasCode(code) THEN GetApiCredentials(checked)
              ELSE Awaiting(Emitted(checked, "deploy_safe"), "deploy", "await_deploy")
    /\ UNCHANGED beyondSession

\* kit.ts:142-143, 230-242
GetBytecodeReturns(code) ==
    /\ session.pc = "await_getBytecode"
    /\ LET checked == [session EXCEPT !.code = code, !.deployed = Def(HasCode(code))]
       IN  session' =
              IF HasCode(code) THEN GetApiCredentials(checked)
              ELSE IF ~session.autoDeploySafe
                   THEN Rejected(checked, "Safe is not deployed")
                   ELSE Awaiting(Emitted(checked, "deploy_safe"),
                                 "deploy", "await_deploy")
    /\ UNCHANGED beyondSession

\* kit.ts:142
GetBytecodeThrows ==
    /\ session.pc = "await_getBytecode"
    /\ session' = Rejected(session, "getBytecode threw")
    /\ UNCHANGED beyondSession

\* kit.ts:147-148
DeployReturns ==
    /\ session.pc = "await_deploy"
    /\ session' = Awaiting(session, "deploy.wait", "await_deployWait")
    /\ UNCHANGED beyondSession

\* kit.ts:147
DeployThrows ==
    /\ session.pc = "await_deploy"
    /\ session' = Rejected(session, "deploy threw")
    /\ UNCHANGED beyondSession

\* DeployWaitReturns taking the acknowledged proxyAddress as the Safe's address
DeployWaitReturnsAdoptingProxy(result) ==
    /\ session.pc = "await_deployWait"
    /\ LET waited == [session EXCEPT !.deployResult = result]
       IN  session' =
              IF ~HasProxyAddress(result) THEN Rejected(waited, "Safe deployment failed")
              ELSE GetApiCredentials(
                      [waited EXCEPT !.safeAddress = Field(result, "proxyAddress")])
    /\ UNCHANGED beyondSession

\* kit.ts:148-154, 239-242
DeployWaitReturns(result) ==
    /\ session.pc = "await_deployWait"
    /\ LET waited == [session EXCEPT !.deployResult = result]
       IN  session' =
              IF ~HasProxyAddress(result) THEN Rejected(waited, "Safe deployment failed")
              ELSE GetApiCredentials(waited)
    /\ UNCHANGED beyondSession

\* kit.ts:148
DeployWaitThrows ==
    /\ session.pc = "await_deployWait"
    /\ session' = Rejected(session, "deploy.wait threw")
    /\ UNCHANGED beyondSession

\* kit.ts:244-245, 192-197
CheckApprovals(s, check) ==
    IF s.pc = "threw" THEN s
    ELSE [Awaiting(s, "checkAllApprovals", "await_checkApprovals") EXCEPT !.check = check]

\* kit.ts:170, 242-245: the credentials are had, the first approval check starts
HaveCredentials(s, apiCredentials) ==
    CheckApprovals(Emitted([s EXCEPT !.apiCredentials = apiCredentials],
                           "check_approvals"),
                   "before")

\* kit.ts:164-170: deriveApiKey settled, derived being null after its catch
DeriveApiKeySettles(derived) ==
    /\ session.pc = "await_deriveApiKey"
    /\ LET settled == [session EXCEPT !.derived = derived]
       IN  session' =
              IF IsComplete(derived) THEN HaveCredentials(settled, derived)
              ELSE Awaiting(settled, "createApiKey", "await_createApiKey")
    /\ UNCHANGED beyondSession

DeriveApiKeyReturns(derived) == DeriveApiKeySettles(derived)

\* DeriveApiKeyThrows with no catch: the failure ends the bootstrap
DeriveApiKeyThrowsFatally ==
    /\ session.pc = "await_deriveApiKey"
    /\ session' = Rejected(session, "deriveApiKey threw")
    /\ UNCHANGED beyondSession

\* kit.ts:164: .catch(() => null)
DeriveApiKeyThrows == DeriveApiKeySettles(Undefined)

\* kit.ts:169-170
CreateApiKeyReturns(created) ==
    /\ session.pc = "await_createApiKey"
    /\ session' = HaveCredentials(session, created)
    /\ UNCHANGED beyondSession

\* kit.ts:169
CreateApiKeyThrows ==
    /\ session.pc = "await_createApiKey"
    /\ session' = Rejected(session, "createApiKey threw")
    /\ UNCHANGED beyondSession

\* Complete refusing a session whose approvals are not all there
CompleteOnlyIfApproved(s) ==
    IF ~Val(s.approvals).allApproved THEN Rejected(s, "approvals missing")
    ELSE LET told == Emitted(s, "complete")
         IN  IF told.pc = "threw" THEN told
             ELSE [told EXCEPT
                     !.pc = "returned",
                     !.result = Def([ eoaAddress |-> EoaAddress,
                                      safeAddress |-> Val(s.safeAddress),
                                      apiCredentials |-> Val(s.apiCredentials),
                                      approvals |-> Val(s.approvals) ])]

\* kit.ts:254-261
Complete(s) ==
    LET told == Emitted(s, "complete")
    IN  IF told.pc = "threw" THEN told
        ELSE [told EXCEPT
                !.pc = "returned",
                !.result = Def([ eoaAddress |-> EoaAddress,
                                 safeAddress |-> Val(s.safeAddress),
                                 apiCredentials |-> Val(s.apiCredentials),
                                 approvals |-> Val(s.approvals) ])]

\* EnsureApprovalsReturns reporting a submission whatever was done
EnsureApprovalsReturnsClaimingTx(s, didSubmitTx, approvals) ==
    IF s.kind = "ensureApprovals"
    THEN [s EXCEPT
            !.pc = "returned", !.didSubmitTx = Def(TRUE),
            !.approvals = Def(approvals),
            !.result = Def([didSubmitTx |-> TRUE, approvals |-> approvals])]
    ELSE Complete([s EXCEPT !.didSubmitTx = Def(TRUE),
                            !.approvals = Def(approvals)])

\* kit.ts:202, 213 and 250-251: ensureApprovals returns, to its caller or into
\* initializeTradingSession
EnsureApprovalsReturns(s, didSubmitTx, approvals) ==
    IF s.kind = "ensureApprovals"
    THEN [s EXCEPT
            !.pc = "returned", !.didSubmitTx = Def(didSubmitTx),
            !.approvals = Def(approvals),
            !.result = Def([didSubmitTx |-> didSubmitTx, approvals |-> approvals])]
    ELSE Complete([s EXCEPT !.didSubmitTx = Def(didSubmitTx),
                            !.approvals = Def(approvals)])

\* kit.ts:205-209 with the batch submitted whatever the check said
AfterEnsureCheckAlwaysExecuting(s, approvals) ==
    Awaiting(s, "execute", "await_execute")

\* kit.ts:200-209: after the check ensureApprovals starts with
AfterEnsureCheck(s, approvals) ==
    IF approvals.allApproved THEN EnsureApprovalsReturns(s, FALSE, approvals)
    ELSE Awaiting(s, "execute", "await_execute")

\* kit.ts:245-254 and 200-213: a checkApprovals call returned
CheckApprovalsReturns(approvals) ==
    /\ session.pc = "await_checkApprovals"
    /\ LET checked == [session EXCEPT !.lastCheck = Def(approvals)]
       IN  session' =
              CASE session.check = "before" ->
                     LET before == [checked EXCEPT
                                       !.approvalsBefore = Def(approvals),
                                       !.approvals = Def(approvals)]
                     IN  IF ~approvals.allApproved
                         THEN CheckApprovals(Emitted(before, "set_approvals"), "ensure")
                         ELSE Complete(before)
                [] session.check = "ensure" -> AfterEnsureCheck(checked, approvals)
                [] session.check = "after" ->
                     EnsureApprovalsReturns(checked, TRUE, approvals)
    /\ UNCHANGED beyondSession

\* kit.ts:206-210
ExecuteReturns ==
    /\ session.pc = "await_execute"
    /\ session' = Awaiting(session, "execute.wait", "await_executeWait")
    /\ UNCHANGED beyondSession

\* ExecuteThrows with the batch sent again after a failure, a few times
ExecuteThrowsRetrying ==
    /\ session.pc = "await_execute"
    /\ Len(session.log) < 24
    /\ session' = Awaiting(session, "execute", "await_execute")
    /\ UNCHANGED beyondSession

\* kit.ts:206
ExecuteThrows ==
    /\ session.pc = "await_execute"
    /\ session' = Rejected(session, "execute threw")
    /\ UNCHANGED beyondSession

\* kit.ts:210-212
ExecuteWaitReturns ==
    /\ session.pc = "await_executeWait"
    /\ session' = CheckApprovals(session, "after")
    /\ UNCHANGED beyondSession

\* kit.ts:210
ExecuteWaitThrows ==
    /\ session.pc = "await_executeWait"
    /\ session' = Rejected(session, "execute.wait threw")
    /\ UNCHANGED beyondSession

\* kit.ts:199-200: ensureApprovals called on its own, up to its first await
EnsureApprovals ==
    /\ session.pc = "idle"
    /\ session' =
          CheckApprovals([IdleSession EXCEPT !.kind = "ensureApprovals",
                                             !.safeAddress = Def(DerivedSafe)],
                         "ensure")
    /\ UNCHANGED beyondSession

\* The caller drops the settled promise; no state of a run outlives it
ForgetSession ==
    /\ session.pc \in {"returned", "threw"}
    /\ session' = IdleSession
    /\ UNCHANGED beyondSession

-----------------------------------------------------------------------------
(* mapClobErrorMsgToCode as a function: apply it to a message, alone and     *)
(* through normalizeOrderResponse                                            *)

\* "DUPLICATED" and a message of blanks
SampleShouted == <<"D", "U", "P", "L", "I", "C", "A", "T", "E", "D">>
SampleBlank == <<" ", " ">>

\* What messages are made of: the phrases the classifier knows, phrases it
\* does not know, the same in other letter case and with blanks around
Fragments ==
    { PatTickSize, PatMinSize, PatDuplicated, PatNotEnoughBalance, PatAllowance,
      PatInvalidExpiration, PatCouldNotInsert, PatExecution, PatMatchDelayed,
      PatErrorDelaying, PatFokOrders, PatNotFullyFilled, PatMarketNotReady,
      SampleTickSize, SampleServerExploded, SampleBalance, SampleTimeout,
      SampleShouted, SampleBlank }

\* The fragments of fs one after the other
RECURSIVE Concat(_)
Concat(fs) == IF Len(fs) = 0 THEN <<>> ELSE Head(fs) \o Concat(Tail(fs))

\* The messages of at most MaxFragments fragments, "" among them
Messages ==
    { Concat(fs) : fs \in UNION { [1..n -> Fragments] : n \in 0..MaxFragments } }

\* errorMsg as a caller may pass it: undefined (or null), or a string
ErrorMsgs == {Undefined} \cup { Def(m) : m \in Messages }

\* A response of the CLOB that carries errorMsg and nothing else
RejectionWith(errorMsg) ==
    Def([ success |-> Undefined, orderID |-> Undefined, orderId |-> Undefined,
          errorMsg |-> errorMsg, error |-> Undefined, status |-> Undefined,
          transactionsHashes |-> Undefined, transactionHashes |-> Undefined,
          orderHashes |-> Undefined ])

Classify ==
    /\ classifyOut = Undefined
    /\ classifyOut' =
          Def([ code |-> mapClobErrorMsgToCode(classifyIn),
                normalized |-> normalizeOrderResponse(RejectionWith(classifyIn)) ])
    /\ UNCHANGED <<classifyIn, beyondClassify>>

-----------------------------------------------------------------------------
(* Specifications *)

\* The kit after construction (kit.ts:77-105), no call made yet
KitInit ==
    /\ tokenMetaCache = [t \in Tokens |-> Undefined]
    /\ now = 0
    /\ call = [c \in Calls |-> IdleCall]
    /\ prev = Undefined

\* Nothing called yet
Init ==
    /\ KitInit
    /\ alignIn = IdleAlign /\ alignOut = <<>>
    /\ classifyIn = Undefined /\ classifyOut = Undefined
    /\ approval = IdleApproval
    /\ session = IdleSession

\* Order calls, one after the other
Next ==
    \/ \E c \in Calls : Sequential(c) /\ \E req \in LimitRequests : CreateLimitOrder(c, req)
    \/ \E c \in Calls : Sequential(c) /\ \E req \in MarketRequests : CreateMarketOrder(c, req)
    \/ \E c \in Calls : Awaits(c, "await_getOrderBook") /\ \E ob \in OrderBooks : GetOrderBookReturns(c, ob)
    \/ \E c \in Calls : GetOrderBookThrows(c)
    \/ \E c \in Calls : Awaits(c, "await_getPrice") /\ \E quote \in PriceQuotes : GetPriceReturns(c, quote)
    \/ \E c \in Calls : GetPriceThrows(c)
    \/ \E c \in Calls : AwaitSubmission(c)
    \/ \E c \in Calls : Awaits(c, "await_submit") /\ \E res \in RawResponses : SubmitReturns(c, res)
    \/ \E c \in Calls : Awaits(c, "await_submit") /\ \E err \in ThrownErrors : SubmitThrows(c, err)
    \/ \E c \in Calls : Forget(c)

Spec == Init /\ [][Next]_vars

\* resolveTokenMeta runs, one after the other, as time passes
NextSeq ==
    \/ \E c \in Calls : Sequential(c) /\ \E p \in ResolveParams :
          ResolveTokenMeta(c, p)
    \/ \E c \in Calls : Awaits(c, "await_getOrderBook") /\ \E ob \in SeqBooks : GetOrderBookReturns(c, ob)
    \/ \E c \in Calls : GetOrderBookThrows(c)
    \/ \E c \in Calls : Forget(c)
    \/ \E d \in ClockSteps : Tick(d)

SpecSeq == Init /\ [][NextSeq]_vars

\* resolveTokenMeta runs for one token in mode auto, overlapping as the
\* scheduler allows: a run may start while another is suspended on its lookup
ConcurrentParams ==
    { p \in ResolveParams : /\ p.tokenId = "tokenA" /\ p.mode = "auto"
                            /\ p.needTickSize /\ p.tickSizeOverride = <<>> }

\* What getOrderBook returns to them: nothing, tick 0.01 alone, and two
\* order books that differ in both fields
ConcurrentBooks ==
    { Undefined,
      Def([tick_size |-> Def(<<"0", ".", "0", "1">>), neg_risk |-> Undefined]),
      Def([tick_size |-> Def(<<"0", ".", "0", "1">>), neg_risk |-> Def(TRUE)]),
      Def([tick_size |-> Def(<<"0", ".", "1">>), neg_risk |-> Def(FALSE)]) }

NextConcurrent ==
    \/ \E c \in Calls : Awaits(c, "idle") /\ \E p \in ConcurrentParams :
          ResolveTokenMeta(c, p)
    \/ \E c \in Calls : Awaits(c, "await_getOrderBook") /\ \E ob \in ConcurrentBooks : GetOrderBookReturns(c, ob)
    \/ \E c \in Calls : GetOrderBookThrows(c)
    \/ \E c \in Calls : Forget(c)
    \/ \E d \in ClockSteps : Tick(d)

SpecConcurrent == Init /\ [][NextConcurrent]_vars

\* alignPriceToTick on every input of AlignInputs
InitAlign ==
    /\ KitInit
    /\ alignIn \in AlignInputs
    /\ alignOut = <<>>
    /\ classifyIn = Undefined /\ classifyOut = Undefined
    /\ approval = IdleApproval
    /\ session = IdleSession

NextAlign == Align

SpecAlign == InitAlign /\ [][NextAlign]_vars

\* mapClobErrorMsgToCode on every message of ErrorMsgs
InitClassify ==
    /\ KitInit
    /\ alignIn = IdleAlign /\ alignOut = <<>>
    /\ classifyIn \in ErrorMsgs
    /\ classifyOut = Undefined
    /\ approval = IdleApproval
    /\ session = IdleSession

NextClassify == Classify

SpecClassify == InitClassify /\ [][NextClassify]_vars

\* One invocation of checkAllApprovals, its reads settling in any order
NextApprovals ==
    \/ \E params \in ApprovalParams : CheckAllApprovals(params)
    \/ \E name \in Names(USDC_E_SPENDERS) : \E allowance \in Allowances :
          AllowanceReturns(name, allowance)
    \/ \E name \in Names(USDC_E_SPENDERS) : AllowanceThrows(name)
    \/ \E name \in Names(OUTCOME_TOKEN_SPENDERS) : \E isApproved \in BOOLEAN :
          IsApprovedReturns(name, isApproved)
    \/ \E name \in Names(OUTCOME_TOKEN_SPENDERS) : IsApprovedThrows(name)

SpecApprovals == Init /\ [][NextApprovals]_vars

\* initializeTradingSession and ensureApprovals, one invocation after the other
NextSession ==
    \/ \E params \in SessionParams : InitializeTradingSession(params)
    \/ EnsureApprovals
    \/ CreateRelayClientReturns
    \/ CreateRelayClientThrows
    \/ \E code \in Bytecodes : GetBytecodeReturns(code)
    \/ GetBytecodeThrows
    \/ DeployReturns
    \/ DeployThrows
    \/ \E result \in DeployResults : DeployWaitReturns(result)
    \/ DeployWaitThrows
    \/ \E derived \in Credentials \cup {Undefined} : DeriveApiKeyReturns(derived)
    \/ DeriveApiKeyThrows
    \/ \E created \in Credentials : CreateApiKeyReturns(created)
    \/ CreateApiKeyThrows
    \/ \E approvals \in ApprovalStatuses : CheckApprovalsReturns(approvals)
    \/ ExecuteReturns
    \/ ExecuteThrows
    \/ ExecuteWaitReturns
    \/ ExecuteWaitThrows
    \/ ForgetSession

SpecSession == Init /\ [][NextSession]_vars

\* The requests and the submission results of the terminating runs: one
\* request for every way through the code (mode, aggressive price, expiry,
\* tick handling, price and amounts given or not), one result of each kind
TerminatingLimitRequests ==
    { req \in LimitRequests :
        /\ req.negRisk = Undefined /\ req.tickRounding = Undefined
        /\ req.price \in {Undefined, Def((127 * PriceUnit) \div 1000)}
        /\ req.tickSize \in {<<>>, <<"0", ".", "0", "1">>} }
TerminatingMarketRequests ==
    { req \in MarketRequests :
        /\ req.negRisk = Undefined /\ req.tickRounding = Undefined
        /\ req.price \in {Undefined, Def((127 * PriceUnit) \div 1000)}
        /\ req.tickSize \in {<<>>, <<"0", ".", "0", "1">>}
        /\ req.amountShares = Def(10) }
TerminatingResponses ==
    { res \in RawResponses :
        IsDef(res) => /\ Val(res).orderId = Undefined /\ Val(res).error = Undefined
                      /\ Val(res).orderID # Def("")
                      /\ Val(res).errorMsg # Def(<<>>) }

\* A lookup an order call awaits returns or fails, the call that has built its
\* order goes on to submit it, and the submission returns or fails
OrderSettles ==
    \/ \E c \in Calls : Awaits(c, "await_getOrderBook") /\ \E ob \in SeqBooks : GetOrderBookReturns(c, ob)
    \/ \E c \in Calls : GetOrderBookThrows(c)
    \/ \E c \in Calls : Awaits(c, "await_getPrice") /\ \E quote \in PriceQuotes : GetPriceReturns(c, quote)
    \/ \E c \in Calls : GetPriceThrows(c)
    \/ \E c \in Calls : AwaitSubmission(c)
    \/ \E c \in Calls : Awaits(c, "await_submit") /\ \E res \in TerminatingResponses : SubmitReturns(c, res)
    \/ \E c \in Calls : Awaits(c, "await_submit") /\ \E err \in ThrownErrors : SubmitThrows(c, err)

\* An order call is under way: the states in which OrderSettles is enabled
OrderAwaited == \E c \in Calls : call[c].pc \notin {"idle", "returned", "thrown"}

\* A collaborator call the session awaits returns or fails
SessionSettles ==
    \/ CreateRelayClientReturns
    \/ CreateRelayClientThrows
    \/ \E code \in Bytecodes : GetBytecodeReturns(code)
    \/ GetBytecodeThrows
    \/ DeployReturns
    \/ DeployThrows
    \/ \E result \in DeployResults : DeployWaitReturns(result)
    \/ DeployWaitThrows
    \/ \E derived \in Credentials \cup {Undefined} : DeriveApiKeyReturns(derived)
    \/ DeriveApiKeyThrows
    \/ \E created \in Credentials : CreateApiKeyReturns(created)
    \/ CreateApiKeyThrows
    \/ \E approvals \in ApprovalStatuses : CheckApprovalsReturns(approvals)
    \/ ExecuteReturns
    \/ ExecuteThrows
    \/ ExecuteWaitReturns
    \/ ExecuteWaitThrows

\* No invocation is under way
AllIdle == session.pc = "idle" /\ \A c \in Calls : call[c].pc = "idle"

\* Order calls and session calls, one invocation after the other
NextTerminating ==
    \/ \E c \in Calls : Sequential(c) /\ session.pc = "idle"
          /\ \E req \in TerminatingLimitRequests : CreateLimitOrder(c, req)
    \/ \E c \in Calls : Sequential(c) /\ session.pc = "idle"
          /\ \E req \in TerminatingMarketRequests : CreateMarketOrder(c, req)
    \/ AllIdle /\ \E params \in SessionParams : InitializeTradingSession(params)
    \/ AllIdle /\ EnsureApprovals
    \/ OrderSettles
    \/ SessionSettles
    \/ \E c \in Calls : Forget(c)
    \/ ForgetSession

\* Every collaborator call that is awaited settles in the end: weak fairness
\* of the settling of the session's calls and of the order calls', the latter
\* with ENABLED written as the state predicate it equals
SpecTerminating ==
    /\ Init /\ [][NextTerminating]_vars
    /\ WF_vars(SessionSettles)
    /\ ([]<>(~OrderAwaited) \/ []<><<OrderSettles>>_vars)

-----------------------------------------------------------------------------
(* Properties of alignPriceToTick, under SpecAlign *)

\* A tick size in units of 1/PriceUnit
TickUnits(tick) == (ParseDecimal(tick)[1] * PriceUnit) \div ParseDecimal(tick)[2]

\* alignPriceToTick has been applied to alignIn
Aligned == Len(alignOut) >= 1

\* price is a whole multiple of tick
IsMultipleOf(price, tick) == price % TickUnits(tick) = 0

\* C6: with tick "0.01", 0.127 aligns to 0.13 under "nearest", to 0.12 under
\* "down" and to 0.13 under "up", and 0.125 aligns to 0.13 under "nearest".
AlignExamples ==
    (Aligned /\ alignIn.tick = <<"0", ".", "0", "1">>) =>
        /\ (alignIn.price = (127 * PriceUnit) \div 1000 /\ alignIn.rounding = "nearest")
              => alignOut[1] = (13 * PriceUnit) \div 100
        /\ (alignIn.price = (127 * PriceUnit) \div 1000 /\ alignIn.rounding = "down")
              => alignOut[1] = (12 * PriceUnit) \div 100
        /\ (alignIn.price = (127 * PriceUnit) \div 1000 /\ alignIn.rounding = "up")
              => alignOut[1] = (13 * PriceUnit) \div 100
        /\ (alignIn.price = (125 * PriceUnit) \div 1000 /\ alignIn.rounding = "nearest")
              => alignOut[1] = (13 * PriceUnit) \div 100

\* C7: for every price in (0,1) and every valid tick, "down" gives the largest
\* multiple of the tick that is <= the price, "up" the smallest multiple that
\* is >= the price, and "nearest" the multiple closest to the price.
AlignIsDirected ==
    Aligned =>
        LET p == alignIn.price
            t == TickUnits(alignIn.tick)
            a == alignOut[1]
        IN  /\ a % t = 0
            /\ alignIn.rounding = "down" => (a <= p /\ p - a < t)
            /\ alignIn.rounding = "up" => (a >= p /\ a - p < t)
            /\ alignIn.rounding = "nearest" => (2 * (a - p) <= t /\ 2 * (p - a) <= t)

\* C8: aligning an aligned price again, with the same tick and rounding,
\* gives the same price.
AlignIdempotent ==
    Len(alignOut) = 2 => alignOut[2] = alignOut[1]

\* C8 happens: a price off the tick grid was moved, then aligned again
AlignedTwiceOffGrid ==
    /\ Len(alignOut) = 2
    /\ ~IsMultipleOf(alignIn.price, alignIn.tick)
    /\ alignOut[1] # alignIn.price
    /\ alignIn.rounding = "up"

-----------------------------------------------------------------------------
(* Properties of createLimitOrder and createMarketOrder, under Spec *)

\* Invocation c is an order call whose request is still at hand
OrderCall(c) == call[c].kind \in {"limit", "market"} /\ IsDef(call[c].req)

\* Invocation c returned result-wise: its CreateOrderResult
ResultOf(c) == Val(call[c].result)

\* Invocation c is a createLimitOrder with timeInForce "GTD" and no expiration
GtdWithoutExpiration(c) ==
    /\ call[c].kind = "limit"
    /\ IsDef(call[c].req)
    /\ Val(call[c].req).timeInForce = Def("GTD")
    /\ ~IsDef(Val(call[c].req).expirationUnixSeconds)

\* C1: createLimitOrder with timeInForce "GTD" and no expirationUnixSeconds
\* returns success=false with INVALID_ORDER_EXPIRATION, whatever the other
\* request fields and the cache are, having called no collaborator.
GtdWithoutExpirationFailsOffline ==
    \A c \in Calls :
        GtdWithoutExpiration(c) =>
            /\ call[c].net = <<>>
            /\ call[c].pc = "returned"
            /\ ~ResultOf(c).success
            /\ ResultOf(c).errorCode = Def("INVALID_ORDER_EXPIRATION")

\* C2: createLimitOrder and createMarketOrder never throw; when a collaborator
\* threw, the call returns a result with success=false.
OrderCallsNeverThrow ==
    \A c \in Calls :
        call[c].kind \in {"limit", "market"} =>
            /\ call[c].pc # "thrown"
            /\ (call[c].pc = "returned" /\ IsDef(call[c].settled)
                    /\ ~Val(call[c].settled).ok)
                  => ~ResultOf(c).success

\* Invocation c returned one of the validation failures found before the
\* submission: missing price, missing tick size, tick violation
ValidationFailure(c) ==
    /\ call[c].kind \in {"limit", "market"}
    /\ call[c].pc = "returned"
    /\ ~IsDef(call[c].settled)
    /\ \/ /\ ResultOf(c).errorCode = Def("INVALID_ORDER_ERROR")
          /\ ResultOf(c).errorMsg = Def(MsgPriceRequired)
       \/ /\ ResultOf(c).errorCode = Def("INVALID_ORDER_MIN_TICK_SIZE")
          /\ ResultOf(c).errorMsg \in {Def(MsgMissingTick), Def(MsgBreaksTick)}

\* C3: an order call that returns a validation failure found before the
\* submission has made no network call, in mode auto and in mode manual.
ValidationFailsOffline ==
    \A c \in Calls : ValidationFailure(c) => call[c].net = <<>>

\* The raw response signals acceptance: its success flag, or with no flag an
\* order identifier under either name
SignalsAcceptance(res) ==
    IF IsDef(Field(res, "success")) THEN Val(Field(res, "success"))
    ELSE TruthyStr(Field(res, "orderID")) \/ TruthyStr(Field(res, "orderId"))

\* Invocation c is an order call that has returned the outcome of a submission
\* the collaborator answered
Answered(c) ==
    /\ call[c].kind \in {"limit", "market"}
    /\ call[c].pc = "returned"
    /\ IsDef(call[c].settled)
    /\ Val(call[c].settled).ok

\* C4: a result with success=true came from a raw response that signalled
\* acceptance, carries no non-empty error message and has a non-empty
\* orderId; a normalized success without an order identifier is returned as
\* success=false with errorCode UNKNOWN.
SuccessIsAcknowledged ==
    \A c \in Calls :
        /\ (call[c].kind \in {"limit", "market"} /\ call[c].pc = "returned"
                /\ ResultOf(c).success)
              => /\ Answered(c)
                 /\ SignalsAcceptance(Val(call[c].settled).value)
                 /\ ~TruthyMsg(ResultOf(c).errorMsg)
                 /\ TruthyStr(ResultOf(c).orderId)
                 /\ ~IsDef(ResultOf(c).errorCode)
        /\ Answered(c) =>
              LET normalized == normalizeOrderResponse(Val(call[c].settled).value)
              IN  (normalized.success /\ ~TruthyStr(normalized.orderId))
                      => /\ ~ResultOf(c).success
                         /\ ResultOf(c).errorCode = Def("UNKNOWN")

\* C4 happens: an order call returned success=true for a response that has no
\* success flag and names the order under orderId only
SuccessReturned ==
    \E c \in Calls :
        /\ Answered(c)
        /\ ResultOf(c).success
        /\ ~IsDef(Field(Val(call[c].settled).value, "success"))
        /\ ~IsDef(Field(Val(call[c].settled).value, "orderID"))
        /\ ResultOf(c).orderId = Def("0xB")

\* C5: a result with success=false has errorCode set to a member of
\* ClobInsertErrorCode, whatever the raw response was.
FailureHasErrorCode ==
    \A c \in Calls :
        (call[c].kind \in {"limit", "market"} /\ call[c].pc = "returned"
            /\ ~ResultOf(c).success)
          => /\ IsDef(ResultOf(c).errorCode)
             /\ Val(ResultOf(c).errorCode) \in ClobInsertErrorCodes

\* The tick size the tick handling of invocation c uses, <<>> when there is none
TickOf(c) ==
    IF call[c].meta.tickSize # <<>> THEN call[c].meta.tickSize
    ELSE Val(call[c].req).tickSize

\* Invocation c came to its tick handling with tickSizeMode "validate", a
\* price of the request and a tick size: a createLimitOrder with an explicit
\* price and a usable expiration, or a createMarketOrder with a price
ValidatesPrice(c) ==
    /\ OrderCall(c)
    /\ call[c].pc \in {"submit", "returned"}
    /\ Val(call[c].req).tickSizeMode = Def("validate")
    /\ IsDef(Val(call[c].req).price)
    /\ TickOf(c) # <<>>
    /\ call[c].kind = "limit" =>
          /\ ~TruthyBool(Val(call[c].req).isMarketOrder)
          /\ ~GtdWithoutExpiration(c)

\* The order invocation c has handed to the submission
SubmittedOrder(c) == Val(Val(call[c].pending).arg).order

\* Invocation c has been given the amount createMarketOrder asks for
HasAmount(c) ==
    LET req == Val(call[c].req)
        amount == IF req.side = "BUY" THEN req.amountUsdc ELSE req.amountShares
    IN  call[c].kind = "market" => (IsDef(amount) /\ Val(amount) > 0)

\* C9: with tickSizeMode "validate" and a tick size, a price that is not a
\* multiple of the tick is answered INVALID_ORDER_MIN_TICK_SIZE with nothing
\* submitted, and a price that is a multiple is submitted unchanged, whatever
\* tickRounding is.
ValidateRejectsOffGrid ==
    \A c \in Calls :
        ValidatesPrice(c) =>
            LET price == Val(Val(call[c].req).price)
            IN  IF IsMultipleOf(price, TickOf(c))
                THEN /\ call[c].pc = "returned" =>
                            ResultOf(c).errorCode # Def("INVALID_ORDER_MIN_TICK_SIZE")
                     /\ HasAmount(c) => call[c].pc = "submit"
                     /\ call[c].pc = "submit" => SubmittedOrder(c).price = Def(price)
                ELSE /\ call[c].pc = "returned"
                     /\ ~ResultOf(c).success
                     /\ ResultOf(c).errorCode = Def("INVALID_ORDER_MIN_TICK_SIZE")
                     /\ \A i \in 1..Len(call[c].net) :
                           call[c].net[i] \notin {"createAndPostOrder",
                                                  "createAndPostMarketOrder"}

\* C9 happens: 0.127 was rejected against the tick 0.01 with tickRounding "down"
OffGridRejected ==
    \E c \in Calls :
        /\ ValidatesPrice(c)
        /\ call[c].kind = "limit"
        /\ Val(call[c].req).price = Def((127 * PriceUnit) \div 1000)
        /\ Val(call[c].req).tickRounding = Def("down")
        /\ TickOf(c) = <<"0", ".", "0", "1">>
        /\ call[c].pc = "returned"
        /\ ResultOf(c).errorCode = Def("INVALID_ORDER_MIN_TICK_SIZE")

\* Invocation c is an order call past resolveTokenMeta, its request at hand
MetaResolved(c) ==
    /\ OrderCall(c)
    /\ call[c].pc \in {"await_getPrice", "submit", "returned"}

\* C14: the tick size and the risk flag resolveTokenMeta returns are the
\* caller's overrides whenever the caller gave them, on a cache hit and after
\* a lookup alike, so the tick size an order call uses for a request with
\* tickSize is that tickSize.
OverridesTakePrecedence ==
    \A c \in Calls :
        MetaResolved(c) =>
            LET req == Val(call[c].req)
            IN  /\ req.tickSize # <<>> =>
                      (call[c].meta.tickSize = req.tickSize /\ TickOf(c) = req.tickSize)
                /\ IsDef(req.negRisk) => call[c].meta.negRisk = req.negRisk

\* How many of the collaborator calls in net are calls of one of fns
Occurrences(net, fns) == Cardinality({i \in 1..Len(net) : net[i] \in fns})

\* C15: one invocation of createLimitOrder or createMarketOrder calls
\* getOrderBook at most once, getPrice at most once and createAndPostOrder /
\* createAndPostMarketOrder at most once, whatever they answer.
NoCollaboratorCallRepeated ==
    \A c \in Calls :
        call[c].kind \in {"limit", "market"} =>
            /\ Occurrences(call[c].net, {"getOrderBook"}) <= 1
            /\ Occurrences(call[c].net, {"getPrice"}) <= 1
            /\ Occurrences(call[c].net, {"createAndPostOrder",
                                         "createAndPostMarketOrder"}) <= 1

\* C15 happens: an order call made each of its three collaborator calls once
\* and returned the failure of the submission, which threw
ThreeCallsThenFailure ==
    \E c \in Calls :
        /\ call[c].kind = "limit"
        /\ call[c].pc = "returned"
        /\ call[c].net = <<"getOrderBook", "getPrice", "createAndPostOrder">>
        /\ ~Val(call[c].settled).ok
        /\ ~ResultOf(c).success

-----------------------------------------------------------------------------
(* Properties of the token metadata cache, under SpecSeq *)

\* Invocation c is a resolveTokenMeta run that consulted the cache (mode auto,
\* a needed field without override) for the token of the last such run, and
\* started no more than ttl ms after that run started
FollowsWithin(c, ttl) ==
    /\ call[c].kind = "resolve"
    /\ IsDef(call[c].nowRead)
    /\ IsDef(prev)
    /\ Val(prev).tokenId = Val(call[c].req).tokenId
    /\ Val(call[c].nowRead) - Val(prev).startedAt <= ttl

\* The entry invocation c found in the cache was this many ms old
CachedAge(c) == Val(call[c].nowRead) - Val(call[c].cached).fetchedAtMs

\* Invocation c is a resolveTokenMeta run that looked into the cache and
\* found an entry
FoundEntry(c) == call[c].kind = "resolve" /\ IsDef(call[c].cached)

\* The order book invocation c received carries both fields
BothFetched(c) ==
    /\ IsDef(call[c].ob)
    /\ IsDef(Field(Val(call[c].ob), "tick_size"))
    /\ IsDef(Field(Val(call[c].ob), "neg_risk"))

\* The entry made of what invocation c fetched, stamped with the time the run
\* read at its start
FetchedEntry(c) ==
    Def([ tickSize |-> Val(Field(Val(call[c].ob), "tick_size")),
          negRisk |-> Val(Field(Val(call[c].ob), "neg_risk")),
          fetchedAtMs |-> Val(call[c].nowRead) ])

\* C11 as stated: a run that finds an entry older than 60000 ms issues exactly
\* one getOrderBook call and replaces the entry with the fetched tick size,
\* risk flag and timestamp; an entry exactly 60000 ms old is fresh and causes
\* no lookup.
ExpiredEntryReplaced ==
    \A c \in Calls :
        FoundEntry(c) =>
            /\ CachedAge(c) > DEFAULT_META_CACHE_TTL_MS =>
                  /\ call[c].net = <<"getOrderBook">>
                  /\ call[c].pc \in {"returned", "thrown"} =>
                        /\ BothFetched(c)
                        /\ tokenMetaCache[Val(call[c].req).tokenId] = FetchedEntry(c)
            /\ CachedAge(c) = DEFAULT_META_CACHE_TTL_MS =>
                  (call[c].path = "hit" /\ call[c].net = <<>>)

\* C11 as the code has it: a run that finds an entry older than 60000 ms
\* issues exactly one getOrderBook call and, when that call returns both a
\* tick size and a risk flag, replaces the entry with them and the time read
\* at the start of the run; an entry exactly 60000 ms old is fresh and causes
\* no lookup.
ExpiredEntryReplacedWhenBothFetched ==
    \A c \in Calls :
        FoundEntry(c) =>
            /\ CachedAge(c) > DEFAULT_META_CACHE_TTL_MS =>
                  /\ call[c].net = <<"getOrderBook">>
                  /\ (call[c].pc = "returned" /\ BothFetched(c)) =>
                        tokenMetaCache[Val(call[c].req).tokenId] = FetchedEntry(c)
            /\ CachedAge(c) = DEFAULT_META_CACHE_TTL_MS =>
                  (call[c].path = "hit" /\ call[c].net = <<>>)

\* C11 happens: an entry older than the TTL was replaced by a newer one
ExpiredEntryWasReplaced ==
    \E c \in Calls :
        /\ FoundEntry(c)
        /\ CachedAge(c) > DEFAULT_META_CACHE_TTL_MS
        /\ call[c].pc = "returned"
        /\ BothFetched(c)
        /\ tokenMetaCache[Val(call[c].req).tokenId] # call[c].cached
        /\ Val(tokenMetaCache[Val(call[c].req).tokenId]).fetchedAtMs
              = Val(call[c].nowRead)

\* The overrides supply every field the run of parameters p needs
SuppliesAllNeeded(p) ==
    /\ p.needTickSize => p.tickSizeOverride # <<>>
    /\ p.needNegRisk => IsDef(p.negRiskOverride)

\* C12: in mode manual, and in mode auto when the overrides supply every
\* needed field, resolveTokenMeta calls no getOrderBook and returns exactly
\* the overrides, whatever the cache holds.
OverridesNeedNoLookup ==
    \A c \in Calls :
        (/\ call[c].kind = "resolve"
         /\ Val(call[c].req).mode = "manual" \/ SuppliesAllNeeded(Val(call[c].req)))
          => /\ call[c].pc = "returned"
             /\ call[c].net = <<>>
             /\ call[c].result =
                    Def([ tickSize |-> Val(call[c].req).tickSizeOverride,
                          negRisk |-> Val(call[c].req).negRiskOverride ])

\* C12 happens: a run in mode manual that needs a tick size and has no
\* override returned none, with a fresh entry for its token in the cache
ManualRunIgnoredCache ==
    \E c \in Calls :
        /\ call[c].kind = "resolve"
        /\ Val(call[c].req).mode = "manual"
        /\ Val(call[c].req).needTickSize
        /\ Val(call[c].req).tickSizeOverride = <<>>
        /\ IsFresh(tokenMetaCache[Val(call[c].req).tokenId], now)
        /\ call[c].pc = "returned"
        /\ Val(call[c].result).tickSize = <<>>

\* C13: an entry of the cache holds a tick size and a risk flag that both came
\* from a getOrderBook response for the token: a run whose order book lacks
\* either leaves the cache as it found it, and overrides are never stored.
CacheHoldsOnlyFetched ==
    \A c \in Calls :
        (call[c].kind = "resolve" /\ IsDef(call[c].ob)) =>
            tokenMetaCache[Val(call[c].req).tokenId] =
                IF BothFetched(c) THEN FetchedEntry(c) ELSE call[c].cached

\* C10 as stated: two such runs for one token that start no more than 60000 ms
\* apart issue at most one getOrderBook call in total, whatever the lookup
\* answers.
OneLookupWithinTtl ==
    \A c \in Calls :
        FollowsWithin(c, DEFAULT_META_CACHE_TTL_MS) =>
            Val(prev).lookups + Len(call[c].net) <= 1

\* C10 as the code has it: two such runs for one token that start no more than
\* 60000 ms apart issue at most one getOrderBook call in total, provided the
\* first run's lookup, if it made one, returned and left an entry in the cache
\* (a tick size and a risk flag, from the order book or else from the
\* overrides).
OneLookupWithinTtlOnceCached ==
    \A c \in Calls :
        (FollowsWithin(c, DEFAULT_META_CACHE_TTL_MS)
            /\ (Val(prev).lookups = 0 \/ Val(prev).stored))
          => Val(prev).lookups + Len(call[c].net) <= 1

\* C10 happens: the first run looked the token up and cached it, and the
\* second, started exactly 60000 ms later, returned without a lookup
SecondRunServedFromCache ==
    \E c \in Calls :
        /\ FollowsWithin(c, DEFAULT_META_CACHE_TTL_MS)
        /\ Val(prev).lookups = 1
        /\ Val(prev).stored
        /\ Val(call[c].nowRead) - Val(prev).startedAt = DEFAULT_META_CACHE_TTL_MS
        /\ call[c].pc = "returned"
        /\ call[c].path = "hit"
        /\ call[c].net = <<>>

-----------------------------------------------------------------------------
(* Properties of mapClobErrorMsgToCode, under SpecClassify *)

\* The classification table: the phrases of each code, in the order in which
\* the codes are tried
PatternOrder ==
    << <<{PatTickSize}, "INVALID_ORDER_MIN_TICK_SIZE">>,
       <<{PatMinSize}, "INVALID_ORDER_MIN_SIZE">>,
       <<{PatDuplicated}, "INVALID_ORDER_DUPLICATED">>,
       <<{PatNotEnoughBalance, PatAllowance}, "INVALID_ORDER_NOT_ENOUGH_BALANCE">>,
       <<{PatInvalidExpiration}, "INVALID_ORDER_EXPIRATION">>,
       <<{PatCouldNotInsert}, "INVALID_ORDER_ERROR">>,
       <<{PatExecution}, "EXECUTION_ERROR">>,
       <<{PatMatchDelayed}, "ORDER_DELAYED">>,
       <<{PatErrorDelaying}, "DELAYING_ORDER_ERROR">>,
       <<{PatFokOrders, PatNotFullyFilled}, "FOK_ORDER_NOT_FILLED_ERROR">>,
       <<{PatMarketNotReady}, "MARKET_NOT_READY">> >>

\* The rows of the table with a phrase that occurs in the lower-cased message
Matching(message) ==
    LET lowered == ToLowerCase(message)
    IN  { i \in 1..Len(PatternOrder) :
            \E pat \in PatternOrder[i][1] : Includes(lowered, pat) }

\* The code of the first such row, UNKNOWN when there is none
FirstMatch(message) ==
    LET rows == Matching(message)
    IN  IF rows = {} THEN "UNKNOWN"
        ELSE PatternOrder[CHOOSE i \in rows : \A j \in rows : i <= j][2]

\* The message classified is absent or ""
NoMessage == classifyIn = Undefined \/ Val(classifyIn) = <<>>

\* C16: for a non-empty message the code is that of the first row of the table
\* whose phrase occurs in the lower-cased message, UNKNOWN with no such row;
\* for an absent or empty message there is no code and the normalized response
\* has no errorCode; the code is never HTTP_ERROR.
ClassifiesByFirstMatch ==
    IsDef(classifyOut) =>
        /\ NoMessage =>
              /\ Val(classifyOut).code = Undefined
              /\ Val(classifyOut).normalized.errorCode = Undefined
        /\ ~NoMessage =>
              Val(classifyOut).code = Def(FirstMatch(Val(classifyIn)))
        /\ Val(classifyOut).code # Def("HTTP_ERROR")

\* C16 witness: a message with phrases of two codes, the later row's phrase
\* standing first in the text, was given the earlier row's code
EarlierRowWon ==
    /\ classifyIn = Def(PatAllowance \o PatDuplicated)
    /\ IsDef(classifyOut)
    /\ Cardinality(Matching(Val(classifyIn))) = 2
    /\ Val(classifyOut).code = Def("INVALID_ORDER_DUPLICATED")

-----------------------------------------------------------------------------
(* Properties of checkAllApprovals, under SpecApprovals *)

\* The threshold the caller asked for
ThresholdAsked ==
    IF IsDef(Val(approval.params).threshold) THEN Val(Val(approval.params).threshold)
    ELSE DEFAULT_USDC_APPROVAL_THRESHOLD

\* Every read of the matrix has settled
AllReadsSettled ==
    /\ DOMAIN approval.allowanceReads = Names(USDC_E_SPENDERS)
    /\ DOMAIN approval.isApprovedReads = Names(OUTCOME_TOKEN_SPENDERS)

\* The spenders whose read threw
AllowanceFailures ==
    { name \in DOMAIN approval.allowanceReads : ~approval.allowanceReads[name].ok }
IsApprovedFailures ==
    { name \in DOMAIN approval.isApprovedReads : ~approval.isApprovedReads[name].ok }

\* C17: whichever reads throw, checkAllApprovals returns once all have settled;
\* the status maps a spender whose read threw to false and every other spender
\* to what its read said (allowance >= threshold, or the isApprovedForAll
\* flag), and allApproved is false when a read threw.
FailedReadsAreNotApproved ==
    /\ AllReadsSettled => approval.pc = "returned" /\ IsDef(approval.result)
    /\ approval.pc = "returned" =>
          LET status == Val(approval.result)
          IN  /\ \A name \in Names(USDC_E_SPENDERS) :
                    status.usdcApprovals[name] =
                        IF name \in AllowanceFailures THEN FALSE
                        ELSE approval.allowanceReads[name].value >= ThresholdAsked
              /\ \A name \in Names(OUTCOME_TOKEN_SPENDERS) :
                    status.outcomeTokenApprovals[name] =
                        IF name \in IsApprovedFailures THEN FALSE
                        ELSE approval.isApprovedReads[name].value
              /\ AllowanceFailures \cup IsApprovedFailures # {} =>
                    ~status.allApproved

\* C17 witness: one allowance read threw, every other spender is approved, and
\* the status returned is not allApproved
OneFailedReadDenies ==
    /\ approval.pc = "returned"
    /\ Cardinality(AllowanceFailures) = 1
    /\ IsApprovedFailures = {}
    /\ \A name \in Names(USDC_E_SPENDERS) \ AllowanceFailures :
          Val(approval.result).usdcApprovals[name]
    /\ \A name \in Names(OUTCOME_TOKEN_SPENDERS) :
          Val(approval.result).outcomeTokenApprovals[name]
    /\ ~Val(approval.result).allApproved

\* C18: in a status returned, both maps have an entry for each spender of the
\* matrix, four and three, and allApproved is true exactly when all seven
\* entries are.
AllApprovedIsConjunction ==
    approval.pc = "returned" =>
        LET status == Val(approval.result)
        IN  /\ DOMAIN status.usdcApprovals = Names(USDC_E_SPENDERS)
            /\ Cardinality(DOMAIN status.usdcApprovals) = 4
            /\ DOMAIN status.outcomeTokenApprovals = Names(OUTCOME_TOKEN_SPENDERS)
            /\ Cardinality(DOMAIN status.outcomeTokenApprovals) = 3
            /\ status.allApproved <=>
                  /\ \A name \in Names(USDC_E_SPENDERS) : status.usdcApprovals[name]
                  /\ \A name \in Names(OUTCOME_TOKEN_SPENDERS) :
                        status.outcomeTokenApprovals[name]

\* C18 witness: a status with all seven entries true and allApproved
FullyApprovedReturned ==
    /\ approval.pc = "returned"
    /\ Val(approval.result).allApproved
    /\ \A name \in Names(USDC_E_SPENDERS) : Val(approval.result).usdcApprovals[name]

-----------------------------------------------------------------------------
(* Properties of initializeTradingSession and ensureApprovals, under SpecSession *)

\* The collaborator call was made, the progress event was emitted
Invoked(name) ==
    \E i \in DOMAIN session.log : session.log[i] = CollaboratorCall(name)
Told(step) ==
    \E i \in DOMAIN session.log : session.log[i] = Event(step)

Bootstrapping == session.kind = "initializeTradingSession"

\* The bytecode check reported the Safe as not deployed
ReportedUndeployed == IsDef(session.deployed) /\ ~Val(session.deployed)

\* getBytecode returned more than "0x"
SafeHasBytecode == IsDef(session.code) /\ Len(Val(session.code)) > 2

\* C19: in initializeTradingSession deploy() is invoked if and only if the
\* bytecode check reported the Safe as not deployed and autoDeploySafe is
\* true; with bytecode at the Safe's address deploy() is not invoked and no
\* deploy_safe event is emitted.
DeployIffUndeployedAndAuto ==
    Bootstrapping =>
        /\ Invoked("deploy") <=> (ReportedUndeployed /\ session.autoDeploySafe)
        /\ SafeHasBytecode => ~Invoked("deploy") /\ ~Told("deploy_safe")

\* C20: relayClient.execute is invoked only when the approval check just before
\* reported allApproved false; a bootstrap whose first check reports full
\* approval emits no set_approvals event, executes no batch, and the session
\* it returns carries the status of that first check.
NoBatchWhenApproved ==
    /\ session.pc = "await_execute" => ~Val(session.lastCheck).allApproved
    /\ Invoked("execute") =>
          \E i \in DOMAIN session.log :
              /\ i + 1 \in DOMAIN session.log
              /\ session.log[i] = CollaboratorCall("checkAllApprovals")
              /\ session.log[i + 1] = CollaboratorCall("execute")
    /\ (Bootstrapping /\ IsDef(session.approvalsBefore)
            /\ Val(session.approvalsBefore).allApproved) =>
          /\ ~Told("set_approvals")
          /\ ~Invoked("execute")
          /\ session.pc = "returned" =>
                Val(session.result).approvals = Val(session.approvalsBefore)

\* C20 witness: a bootstrap with an observer whose first check reported full
\* approval has returned a session
ApprovedBootstrapReturned ==
    /\ Bootstrapping
    /\ session.pc = "returned"
    /\ Told("complete")
    /\ Val(session.approvalsBefore).allApproved
    /\ Val(session.result).approvals = StatusWith({}, {})

\* The bytecode check reported the Safe as not deployed and auto-deploy is off
UndeployedWithoutAuto ==
    Bootstrapping /\ ReportedUndeployed /\ ~session.autoDeploySafe

\* C21: with the Safe reported as not deployed and autoDeploySafe false,
\* initializeTradingSession has thrown "Safe is not deployed"; the bytecode
\* read is the last thing it did: no deploy, no credential derivation or
\* creation, no approval read, no batch, and no progress event of a later step.
FailsWhenDeployDisabled ==
    UndeployedWithoutAuto =>
        /\ session.pc = "threw"
        /\ session.error = Def("Safe is not deployed")
        /\ session.log[Len(session.log)] = CollaboratorCall("getBytecode")
        /\ \A name \in {"deploy", "deploy.wait", "deriveApiKey", "createApiKey",
                        "checkAllApprovals", "execute", "execute.wait"} :
              ~Invoked(name)
        /\ \A step \in {"deploy_safe", "get_api_credentials", "check_approvals",
                        "set_approvals", "complete"} :
              ~Told(step)

\* C21 witness: an observed bootstrap stopped at the bytecode check
StoppedAtBytecodeCheck ==
    /\ UndeployedWithoutAuto
    /\ Told("check_safe_deployed")
    /\ session.pc = "threw"

\* The bootstrap has an observer
Observed == Bootstrapping /\ IsDef(session.onProgress)

\* Where a step stands in the order of the state machine
StepIndex(step) ==
    CHOOSE i \in DOMAIN TradingSessionSteps : TradingSessionSteps[i] = step

\* The step whose work a collaborator call is part of
StepOfCall(name) ==
    CASE name = "createRelayClient" -> "init_relay_client"
      [] name = "getBytecode" -> "check_safe_deployed"
      [] name \in {"deploy", "deploy.wait"} -> "deploy_safe"
      [] name \in {"deriveApiKey", "createApiKey"} -> "get_api_credentials"
      [] name = "checkAllApprovals" -> "check_approvals"
      [] name \in {"execute", "execute.wait"} -> "set_approvals"

\* The positions of the log holding progress events, holding calls
EventsAt == { i \in DOMAIN session.log : session.log[i].type = "event" }
CallsAt == { i \in DOMAIN session.log : session.log[i].type = "call" }

\* C22: the progress steps an observer of initializeTradingSession is told
\* come in the order init_relay_client, derive_safe, check_safe_deployed,
\* deploy_safe, get_api_credentials, check_approvals, set_approvals, complete,
\* each at most once; a run that returned told all of them but, possibly,
\* deploy_safe and set_approvals; and a step's event precedes every
\* collaborator call of that step.
ProgressFollowsStateMachine ==
    Observed =>
        /\ \A i, j \in EventsAt :
              i < j => StepIndex(session.log[i].name) < StepIndex(session.log[j].name)
        /\ session.pc = "returned" =>
              \A step \in Names(TradingSessionSteps) \ {"deploy_safe", "set_approvals"} :
                  Told(step)
        /\ \A j \in CallsAt :
              \E i \in EventsAt :
                  /\ i < j
                  /\ session.log[i].name = StepOfCall(session.log[j].name)
        /\ \A j, k \in CallsAt :
              (/\ j < k
               /\ session.log[j] = CollaboratorCall("checkAllApprovals")
               /\ session.log[k] = CollaboratorCall("checkAllApprovals")) =>
                  \E i \in EventsAt : i < k /\ session.log[i] = Event("set_approvals")

\* C22 witness: a run that returned after telling its observer all eight steps
AllStepsTold ==
    /\ Observed
    /\ session.pc = "returned"
    /\ Cardinality(EventsAt) = Len(TradingSessionSteps)
    /\ Invoked("deploy")
    /\ Invoked("execute")

\* The errors a bootstrap without observer can end with: a collaborator's
\* failure or one of the two errors of the bootstrap itself
ErrorsWithoutObserver ==
    { "createRelayClient threw", "getBytecode threw", "Safe is not deployed",
      "deploy threw", "deploy.wait threw", "Safe deployment failed",
      "createApiKey threw", "execute threw", "execute.wait threw" }

\* C23: the observer has no effect on the control flow of
\* initializeTradingSession: with the same collaborator behaviour the calls
\* made and the outcome are those of the run without observer, whatever the
\* observer does.  A run without observer stops only where a collaborator
\* call is awaited, a session is returned or one of ErrorsWithoutObserver is
\* thrown, so a run with an observer does too.
ObserverHasNoEffect ==
    (Bootstrapping /\ session.pc = "threw") =>
        Val(session.error) \in ErrorsWithoutObserver

\* Where in the log the collaborator was called
CalledAt(name) ==
    { i \in DOMAIN session.log : session.log[i] = CollaboratorCall(name) }

\* The last thing the run did was to call the collaborator
LastDid(name) ==
    Len(session.log) > 0 /\ session.log[Len(session.log)] = CollaboratorCall(name)

\* deriveApiKey has settled
DeriveSettled == Invoked("deriveApiKey") /\ session.pc # "await_deriveApiKey"

\* deriveApiKey failed, or what it returned lacks key, secret or passphrase
DeriveUnusable ==
    \/ session.derived = Undefined
    \/ \E field \in {"key", "secret", "passphrase"} : Val(session.derived)[field] = ""

\* C24: deriveApiKey is called first and createApiKey only after it;
\* createApiKey is called exactly when deriveApiKey threw or returned
\* credentials lacking key, secret or passphrase; the run never ends on a
\* failure of deriveApiKey, and a failure of createApiKey ends it with no
\* credentials and nothing done after.
DeriveThenCreate ==
    /\ Cardinality(CalledAt("deriveApiKey")) <= 1
    /\ Cardinality(CalledAt("createApiKey")) <= 1
    /\ \A j \in CalledAt("createApiKey") : \E i \in CalledAt("deriveApiKey") : i < j
    /\ DeriveSettled => (Invoked("createApiKey") <=> DeriveUnusable)
    /\ session.pc = "threw" => ~LastDid("deriveApiKey")
    /\ session.error = Def("createApiKey threw") =>
          /\ session.pc = "threw"
          /\ LastDid("createApiKey")
          /\ session.apiCredentials = Undefined
          /\ session.result = Undefined

\* C24 witness: deriveApiKey failed, createApiKey was called and the session
\* returned carries what it created
CreatedAfterDeriveFailed ==
    /\ session.pc = "returned"
    /\ session.derived = Undefined
    /\ Invoked("createApiKey")
    /\ Val(session.result).apiCredentials = CreatedCreds

\* The collaborator call at which each fatal failure of the bootstrap arises
FatalAt ==
    { <<"createRelayClient threw", "createRelayClient">>,
      <<"getBytecode threw", "getBytecode">>,
      <<"deploy threw", "deploy">>,
      <<"deploy.wait threw", "deploy.wait">>,
      <<"Safe deployment failed", "deploy.wait">>,
      <<"createApiKey threw", "createApiKey">>,
      <<"execute threw", "execute">>,
      <<"execute.wait threw", "execute.wait">> }

\* The run met the fatal failure
Failed(fatal) == session.error = Def(fatal[1])

\* C25: when a fatal step of initializeTradingSession fails (relay client
\* creation, bytecode read, deploy or its wait, a deploy acknowledged with no
\* proxyAddress, createApiKey, the approval batch or its wait) the call has
\* thrown, the failed call is the last thing it did (no later call, no later
\* event, no complete) and no session is returned; and every bootstrap starts
\* at init_relay_client with none of its locals set.
FatalFailureAborts ==
    /\ \A fatal \in FatalAt :
          Failed(fatal) =>
              /\ session.pc = "threw"
              /\ LastDid(fatal[2])
              /\ ~Told("complete")
              /\ session.result = Undefined
    /\ session.pc = "idle" => session = IdleSession
    /\ (Bootstrapping /\ CallsAt # {}) =>
          /\ \A i \in CallsAt : \A j \in CalledAt("createRelayClient") : j <= i
          /\ CalledAt("createRelayClient") # {}
    /\ (Bootstrapping /\ session.pc = "await_createRelayClient") =>
          /\ session.safeAddress = Undefined
          /\ session.deployed = Undefined
          /\ session.apiCredentials = Undefined
          /\ session.approvals = Undefined
          /\ \A step \in Names(TradingSessionSteps) \ {"init_relay_client"} : ~Told(step)

\* C25 witness: the approval batch was executed and its wait failed, in a
\* bootstrap that had deployed the Safe
BatchWaitFailed ==
    /\ Bootstrapping
    /\ Failed(<<"execute.wait threw", "execute.wait">>)
    /\ Invoked("deploy")
    /\ Told("set_approvals")

\* The quotes of PriceQuotes that give no market price within (0, 1): no
\* quote, no price, "abc", "0" and "1"
UnusableQuotes ==
    { Undefined, Def([price |-> Undefined]) } \cup
    { Def([price |-> Def(s)]) : s \in { <<"a", "b", "c">>, <<"0">>, <<"1">> } }

\* Invocation c is a createLimitOrder with isMarketOrder whose getPrice call
\* threw or returned an unusable quote
NoMarketPrice(c) ==
    /\ call[c].kind = "limit"
    /\ IsDef(call[c].req)
    /\ IsDef(call[c].quote)
    /\ ~Val(call[c].quote).ok \/ Val(call[c].quote).value \in UnusableQuotes

\* 0.99 for BUY, 0.01 for SELL
FallbackPrice(side) ==
    IF side = "BUY" THEN (99 * PriceUnit) \div 100 ELSE PriceUnit \div 100

\* C26: in createLimitOrder with isMarketOrder, when getPrice throws or gives
\* no number within (0, 1), the call does not throw; 0.99 (BUY) or 0.01 (SELL)
\* goes to the tick handling and from there to the submission: with no tick
\* handling asked for it is the price of the order submitted; req.price plays
\* no part, present or not.
MarketPriceFallsBack ==
    \A c \in Calls :
        NoMarketPrice(c) =>
            LET req == Val(call[c].req)
                ticked == applyTick(req, call[c].meta, FallbackPrice(req.side))
            IN  /\ call[c].pc \in {"submit", "returned"}
                /\ call[c].net[Len(call[c].net)] \in {"getPrice", "createAndPostOrder"}
                /\ ticked.ok =>
                      /\ call[c].pc = "submit"
                      /\ SubmittedOrder(c).price = Def(ticked.price)
                /\ ~ticked.ok =>
                      /\ call[c].pc = "returned"
                      /\ ResultOf(c) = ticked.result
                /\ ~IsDef(req.tickSizeMode) =>
                      /\ call[c].pc = "submit"
                      /\ SubmittedOrder(c).price = Def(FallbackPrice(req.side))

\* C26 witness: a BUY with no price in the request and a quote of "1" is
\* submitted at 0.99
FallbackSubmitted ==
    \E c \in Calls :
        /\ NoMarketPrice(c)
        /\ Val(call[c].quote).value = Def([price |-> Def(<<"1">>)])
        /\ Val(call[c].req).side = "BUY"
        /\ ~IsDef(Val(call[c].req).price)
        /\ call[c].pc = "submit"
        /\ SubmittedOrder(c).price = Def(99 * (PriceUnit \div 100))

\* Invocation c is a createMarketOrder that has come through its tick handling
MarketPastTick(c) ==
    /\ call[c].kind = "market"
    /\ IsDef(call[c].req)
    /\ call[c].pc \in {"submit", "returned"}
    /\ marketApplyTick(Val(call[c].req), call[c].meta).ok

\* The amount field of the request's side is absent or not positive
LacksSideAmount(req) ==
    \/ req.side = "BUY" /\ (req.amountUsdc = Undefined \/ Val(req.amountUsdc) <= 0)
    \/ req.side = "SELL" /\ (req.amountShares = Undefined \/ Val(req.amountShares) <= 0)

\* C27: a createMarketOrder past its tick handling returns INVALID_ORDER_ERROR
\* with nothing submitted exactly when amountUsdc (BUY) or amountShares (SELL)
\* is undefined or <= 0; otherwise it submits an order whose amount is that
\* field, whatever the other field is.
MarketAmountOfSide ==
    \A c \in Calls :
        MarketPastTick(c) =>
            LET req == Val(call[c].req)
            IN  /\ LacksSideAmount(req) <=>
                      /\ call[c].pc = "returned"
                      /\ ResultOf(c).errorCode = Def("INVALID_ORDER_ERROR")
                      /\ ~ResultOf(c).success
                /\ LacksSideAmount(req) <=>
                      Occurrences(call[c].net, {"createAndPostMarketOrder"}) = 0
                /\ ~LacksSideAmount(req) =>
                      /\ call[c].pc = "submit"
                      /\ SubmittedOrder(c).amount =
                            IF req.side = "BUY" THEN Val(req.amountUsdc)
                            ELSE Val(req.amountShares)

\* C27 witness: a SELL with amountShares 10 and no amountUsdc is submitted
\* with amount 10
SellWithoutUsdcSubmitted ==
    \E c \in Calls :
        /\ MarketPastTick(c)
        /\ Val(call[c].req).side = "SELL"
        /\ Val(call[c].req).amountShares = Def(10)
        /\ Val(call[c].req).amountUsdc = Undefined
        /\ call[c].pc = "submit"
        /\ SubmittedOrder(c).amount = 10


\* The invocation's submission threw and the invocation has returned
SubmissionThrew(c) ==
    /\ call[c].pc = "returned"
    /\ IsDef(call[c].settled)
    /\ ~Val(call[c].settled).ok

\* The first of the exception's message sources that is there
FirstAvailableMsg(err) ==
    LET response == IF IsDef(err) THEN Val(err).response ELSE Undefined
        data == IF IsDef(response) THEN Val(response).data ELSE Undefined
    IN  IF IsDef(data) /\ IsDef(Val(data).errorMsg) THEN Val(Val(data).errorMsg)
        ELSE IF IsDef(data) /\ IsDef(Val(data).error) THEN Val(Val(data).error)
        ELSE IF IsDef(err) /\ IsDef(Val(err).message) THEN Val(Val(err).message)
        ELSE MsgRequestFailed

CarriesHttpStatus(err) ==
    /\ IsDef(err)
    /\ IsDef(Val(err).response)
    /\ IsDef(Val(Val(err).response).status)

\* C28: when createAndPostOrder or createAndPostMarketOrder throws, the order
\* call returns success=false, with errorCode HTTP_ERROR if the exception
\* carries an HTTP status and UNKNOWN otherwise, and with errorMsg the first
\* available of the response data's errorMsg, the response data's error, the
\* exception's message and "Request failed".
SubmissionThrowIsConverted ==
    \A c \in Calls :
        SubmissionThrew(c) =>
            LET err == Val(call[c].settled).error
                result == Val(call[c].result)
            IN  /\ ~result.success
                /\ result.errorCode =
                       Def(IF CarriesHttpStatus(err) THEN "HTTP_ERROR" ELSE "UNKNOWN")
                /\ result.errorMsg = Def(FirstAvailableMsg(err))

\* A submission threw with status 400, a response data error and a message,
\* and the call returned HTTP_ERROR with the response data's error
ThrownWithDataAndMessage ==
    \E c \in Calls :
        /\ SubmissionThrew(c)
        /\ LET err == Val(call[c].settled).error
           IN  /\ CarriesHttpStatus(err)
               /\ Field(Field(Field(err, "response"), "data"), "error") = Def(SampleBalance)
               /\ Field(err, "message") = Def(SampleTimeout)
        /\ Val(call[c].result).errorCode = Def("HTTP_ERROR")
        /\ Val(call[c].result).errorMsg = Def(SampleBalance)


-----------------------------------------------------------------------------
(* Properties of overlapping resolveTokenMeta runs, under SpecConcurrent *)

\* In this step the lookup of invocation c returns, or settles either way
LookupReturns(c) == call[c].pc = "await_getOrderBook" /\ call'[c].pc = "returned"
LookupSettles(c) ==
    call[c].pc = "await_getOrderBook" /\ call'[c].pc \in {"returned", "thrown"}

\* The run got a tick size and a risk flag to return
ObtainedBoth(rec) ==
    rec.pc = "returned" /\ rec.meta.tickSize # <<>> /\ IsDef(rec.meta.negRisk)

\* The entry the run writes: what it returns, stamped with the time it started
EntryOf(rec) ==
    Def([ tickSize |-> rec.meta.tickSize, negRisk |-> Val(rec.meta.negRisk),
          fetchedAtMs |-> Val(rec.nowRead) ])

\* The run made one lookup of its own
OwnSingleLookup(rec) == rec.path = "miss" /\ rec.net = <<"getOrderBook">>

\* The run returns what its own lookup gave, field by field (its own override
\* where the lookup gave none), whatever the cache holds by then
ReturnsOwnLookup(rec) ==
    LET ob == Val(rec.ob)
        p == Val(rec.req)
    IN  /\ rec.result = Def(rec.meta)
        /\ rec.meta.tickSize = IF IsDef(Field(ob, "tick_size"))
                               THEN Val(Field(ob, "tick_size"))
                               ELSE p.tickSizeOverride
        /\ rec.meta.negRisk = IF IsDef(Field(ob, "neg_risk"))
                              THEN Field(ob, "neg_risk")
                              ELSE p.negRiskOverride

\* While run c was suspended on its lookup another run, which had missed the
\* cache too, wrote the entry the cache holds; no other lookup is in flight
LastOfOverlapping(c) ==
    /\ call[c].pc = "await_getOrderBook"
    /\ \A d \in Calls \ {c} : call[d].pc # "await_getOrderBook"
    /\ \E d \in Calls \ {c} :
          /\ OwnSingleLookup(call[d]) /\ ObtainedBoth(call[d])
          /\ tokenMetaCache["tokenA"] = EntryOf(call[d])
          /\ tokenMetaCache["tokenA"] # call[c].cached

\* C29 as stated: of resolveTokenMeta runs for one token that all miss the
\* cache, however they overlap, each makes one lookup of its own and returns
\* the values of its own lookup, and the cache entry after all of them is the
\* one written by the run whose lookup completed last.
LastCompletedLookupWins ==
    [][ \A c \in Calls :
            (LastOfOverlapping(c) /\ LookupReturns(c)) =>
                /\ OwnSingleLookup(call'[c])
                /\ ReturnsOwnLookup(call'[c])
                /\ ObtainedBoth(call'[c])
                /\ tokenMetaCache'["tokenA"] = EntryOf(call'[c]) ]_vars

\* C29 as the code has it: of resolveTokenMeta runs for one token that all miss
\* the cache, however they overlap, each makes one lookup of its own and
\* returns the values of its own lookup; a run whose lookup returns and that
\* got both a tick size and a risk flag leaves its entry in the cache, a run
\* whose lookup throws or that lacks either leaves the cache as it is, and
\* nothing else writes: the entry after all of them is that of the last run
\* that wrote.
LastWriteWins ==
    [][ /\ \A c \in Calls :
              LookupSettles(c) =>
                  /\ OwnSingleLookup(call'[c])
                  /\ call'[c].pc = "returned" => ReturnsOwnLookup(call'[c])
                  /\ tokenMetaCache'["tokenA"] =
                         IF ObtainedBoth(call'[c]) THEN EntryOf(call'[c])
                         ELSE tokenMetaCache["tokenA"]
        /\ tokenMetaCache' # tokenMetaCache => \E c \in Calls : LookupReturns(c) ]_vars

\* C29 happens: two runs missed the empty cache, so they overlapped; their
\* lookups gave different order books, both wrote, and the cache holds the
\* entry of one of them while the other returned its own values
BothMissedAndWrote ==
    \E c, d \in Calls :
        /\ c # d
        /\ ObtainedBoth(call[c]) /\ ObtainedBoth(call[d])
        /\ OwnSingleLookup(call[c]) /\ OwnSingleLookup(call[d])
        /\ call[c].cached = Undefined /\ call[d].cached = Undefined
        /\ call[c].meta.tickSize # call[d].meta.tickSize
        /\ tokenMetaCache["tokenA"] = EntryOf(call[c])
        /\ ReturnsOwnLookup(call[d])


-----------------------------------------------------------------------------
(* Properties of the cache's entries over time, under SpecSeq *)

\* The order book the run's lookup returned has a tick size and a risk flag
LookupYieldedBoth(rec) ==
    /\ IsDef(rec.ob)
    /\ IsDef(Field(Val(rec.ob), "tick_size"))
    /\ IsDef(Field(Val(rec.ob), "neg_risk"))

\* C30: the cache never loses an entry: a token that has an entry has one in
\* every later state, and an entry, stale or not, stays as it is until a
\* lookup for its token that yields both a tick size and a risk flag
\* supersedes it.
EntryStaysUntilSuperseded ==
    [][ \A t \in Tokens :
            IsDef(tokenMetaCache[t]) =>
                /\ IsDef(tokenMetaCache'[t])
                /\ tokenMetaCache'[t] # tokenMetaCache[t] =>
                       \E c \in Calls :
                           /\ LookupReturns(c)
                           /\ Val(call[c].req).tokenId = t
                           /\ LookupYieldedBoth(call'[c]) ]_vars


-----------------------------------------------------------------------------
(* Further properties of createLimitOrder and createMarketOrder, under Spec *)

\* Invocation c is a createLimitOrder with isMarketOrder whose getPrice call
\* returned a quote that is a number within (0, 1)
HasMarketPrice(c) ==
    /\ call[c].kind = "limit"
    /\ IsDef(call[c].req)
    /\ IsDef(call[c].quote)
    /\ Val(call[c].quote).ok
    /\ Val(call[c].quote).value \notin UnusableQuotes

\* The quote of invocation c, in units of 1/PriceUnit
MarketPriceOf(c) ==
    LET parsed == ParseDecimal(Val(Val(Val(call[c].quote).value).price))
    IN  (parsed[1] * PriceUnit) \div parsed[2]

\* min(0.99, m * 1.05) for BUY, max(0.01, m * 0.95) for SELL
CappedPrice(side, m) ==
    IF side = "BUY"
    THEN IF (m * 105) \div 100 < (99 * PriceUnit) \div 100
         THEN (m * 105) \div 100 ELSE (99 * PriceUnit) \div 100
    ELSE IF (m * 95) \div 100 > PriceUnit \div 100
         THEN (m * 95) \div 100 ELSE PriceUnit \div 100

\* C31: in createLimitOrder with isMarketOrder, getPrice is asked for the
\* order's own side, and with a market price m within (0, 1) the price that
\* goes to the tick handling is min(0.99, m * 1.05) for BUY and
\* max(0.01, m * 0.95) for SELL: what the tick handling makes of it is the
\* price submitted, and with no tick handling asked for it is submitted as it
\* is, at most 0.99 for BUY and at least 0.01 for SELL.
MarketPriceIsCapped ==
    \A c \in Calls :
        /\ call[c].pc = "await_getPrice" =>
              Val(Val(call[c].pending).arg).side = Val(call[c].req).side
        /\ HasMarketPrice(c) =>
              LET req == Val(call[c].req)
                  price == CappedPrice(req.side, MarketPriceOf(c))
                  ticked == applyTick(req, call[c].meta, price)
              IN  /\ call[c].pc \in {"submit", "returned"}
                  /\ ticked.ok =>
                        /\ call[c].pc = "submit"
                        /\ SubmittedOrder(c).price = Def(ticked.price)
                  /\ ~ticked.ok =>
                        /\ call[c].pc = "returned"
                        /\ ResultOf(c) = ticked.result
                  /\ ~IsDef(req.tickSizeMode) =>
                        /\ SubmittedOrder(c).price = Def(price)
                        /\ req.side = "BUY" =>
                              Val(SubmittedOrder(c).price) <= (99 * PriceUnit) \div 100
                        /\ req.side = "SELL" =>
                              Val(SubmittedOrder(c).price) >= PriceUnit \div 100

\* C31 witness: a BUY quoted at 0.96, with no tick handling, is submitted at
\* 0.99, not at 1.008
CapReached ==
    \E c \in Calls :
        /\ HasMarketPrice(c)
        /\ Val(call[c].quote).value = Def([price |-> Def(<<"0", ".", "9", "6">>)])
        /\ Val(call[c].req).side = "BUY"
        /\ ~IsDef(Val(call[c].req).tickSizeMode)
        /\ call[c].pc = "submit"
        /\ SubmittedOrder(c).price = Def((99 * PriceUnit) \div 100)


\* Invocation c is a createLimitOrder about to submit an order whose price
\* came through the tick handling of mode validate or round
TickedLimitSubmission(c) ==
    /\ call[c].kind = "limit"
    /\ call[c].pc = "submit"
    /\ IsDef(call[c].req)
    /\ Val(call[c].req).tickSizeMode \in {Def("validate"), Def("round")}

\* C32: a limit order that reaches submission with tickSizeMode validate or
\* round, from a request price or an aggressive price strictly between 0 and
\* 1, is submitted at a price strictly between 0 and 1, for every tick size
\* and rounding policy: the tick alignment gives neither 0 nor 1.
AlignedPriceStaysInside ==
    \A c \in Calls :
        TickedLimitSubmission(c) =>
            /\ Val(SubmittedOrder(c).price) > 0
            /\ Val(SubmittedOrder(c).price) < PriceUnit


-----------------------------------------------------------------------------
(* Properties of the cache under overlapping runs, under SpecConcurrent *)

\* C33 as stated: the fetchedAtMs of a token's cache entry never decreases,
\* also when resolveTokenMeta runs for the token overlap.
FetchedAtNeverDecreases ==
    [][ \A t \in Tokens :
            (IsDef(tokenMetaCache[t]) /\ IsDef(tokenMetaCache'[t])) =>
                Val(tokenMetaCache'[t]).fetchedAtMs >= Val(tokenMetaCache[t]).fetchedAtMs ]_vars

\* C33 as the code has it: an entry is stamped with the time its run read
\* before awaiting the lookup, and written after the lookup returned; its
\* fetchedAtMs decreases only when the run that writes had started before the
\* entry it replaces was written, that is, when the two runs overlapped.
FetchedAtDecreasesOnlyOnOverlap ==
    [][ \A t \in Tokens :
            tokenMetaCache'[t] # tokenMetaCache[t] =>
                \E c \in Calls :
                    /\ LookupReturns(c)
                    /\ Val(call[c].req).tokenId = t
                    /\ Val(tokenMetaCache'[t]).fetchedAtMs = Val(call[c].nowRead)
                    /\ (/\ IsDef(tokenMetaCache[t])
                        /\ Val(tokenMetaCache'[t]).fetchedAtMs
                              < Val(tokenMetaCache[t]).fetchedAtMs)
                         => tokenMetaCache[t] # call[c].cached ]_vars

\* C33 happens: of two runs that both missed the empty cache and both wrote,
\* the one that started earlier wrote last, and the entry carries its earlier
\* time
EarlierRunWroteLast ==
    \E c, d \in Calls :
        /\ c # d
        /\ ObtainedBoth(call[c]) /\ ObtainedBoth(call[d])
        /\ OwnSingleLookup(call[c]) /\ OwnSingleLookup(call[d])
        /\ call[c].cached = Undefined /\ call[d].cached = Undefined
        /\ Val(call[c].nowRead) < Val(call[d].nowRead)
        /\ tokenMetaCache["tokenA"] = EntryOf(call[c])


-----------------------------------------------------------------------------
(* Further properties of the token metadata cache, under SpecSeq *)

\* C34: a step of a resolveTokenMeta run leaves the cache as it is when the
\* run is in mode manual, is satisfied by overrides, hits a fresh entry, has
\* its lookup throw, or gets a lookup without a tick size or without a risk
\* flag; and whatever the step, the entries of the other tokens stay as they
\* are.
CacheFrame ==
    [][ \A c \in Calls :
            (call'[c] # call[c] /\ call'[c].kind = "resolve") =>
                /\ ( \/ call'[c].path \in {"manual", "overrides", "hit"}
                     \/ call'[c].pc = "thrown"
                     \/ LookupReturns(c) /\ ~LookupYieldedBoth(call'[c]) )
                      => tokenMetaCache' = tokenMetaCache
                /\ \A t \in Tokens \ {Val(call'[c].req).tokenId} :
                      tokenMetaCache'[t] = tokenMetaCache[t] ]_vars


-----------------------------------------------------------------------------
(* Further properties of initializeTradingSession and ensureApprovals,       *)
(* under SpecSession                                                         *)

\* The last collaborator call of the run so far, "" before the first
LastCall ==
    IF CallsAt = {} THEN ""
    ELSE LET last == CHOOSE i \in CallsAt : \A j \in CallsAt : j <= i
         IN  session.log[last].name

\* C35: the approvals of a session initializeTradingSession returns are what
\* the last approval check of the run returned, the re-check after the batch
\* when one was executed, and no collaborator call follows that check; the run
\* goes on to complete whatever that check said: after an approval check the
\* only things that stop a run are the failure of the batch and the observer.
SessionCarriesLastCheck ==
    /\ (Bootstrapping /\ session.pc = "returned") =>
          /\ Val(session.result).approvals = Val(session.lastCheck)
          /\ LastCall = "checkAllApprovals"
          /\ Invoked("execute") =>
                /\ Cardinality(CalledAt("checkAllApprovals")) = 3
                /\ \A i \in CalledAt("execute.wait") :
                      \E j \in CalledAt("checkAllApprovals") : j > i
          /\ Observed => Told("complete")
    /\ (Bootstrapping /\ session.pc = "threw" /\ LastCall = "checkAllApprovals") =>
          session.error = Def("observer threw")

\* C35 happens: the batch was executed, the re-check still found an approval
\* missing, and the session was returned with that status
ReturnedUnapproved ==
    /\ Bootstrapping
    /\ session.pc = "returned"
    /\ Invoked("execute")
    /\ Told("complete")
    /\ ~Val(session.result).approvals.allApproved
    /\ Val(session.result).approvals = Val(session.lastCheck)


\* The approval batch was executed and its wait completed: a call followed it
BatchWaitCompleted ==
    /\ Invoked("execute")
    /\ \E i \in CalledAt("execute.wait") : \E j \in CallsAt : j > i

\* C36: one run of initializeTradingSession (or of ensureApprovals) invokes
\* relayClient.deploy at most once and relayClient.execute at most once, and
\* ensureApprovals returns didSubmitTx = true if and only if it invoked
\* relayClient.execute and the wait of the response completed.
DeployAndExecuteOnce ==
    /\ Cardinality(CalledAt("deploy")) <= 1
    /\ Cardinality(CalledAt("deploy.wait")) <= 1
    /\ Cardinality(CalledAt("execute")) <= 1
    /\ Cardinality(CalledAt("execute.wait")) <= 1
    /\ IsDef(session.didSubmitTx) => (Val(session.didSubmitTx) <=> BatchWaitCompleted)
    /\ (session.kind = "ensureApprovals" /\ session.pc = "returned") =>
          /\ IsDef(session.didSubmitTx)
          /\ Val(session.result).didSubmitTx = Val(session.didSubmitTx)
    /\ (BatchWaitCompleted /\ session.pc \notin {"await_checkApprovals", "threw"}) =>
          session.didSubmitTx = Def(TRUE)

\* C36 happens: a bootstrap deployed the Safe, executed the batch, and its
\* ensureApprovals reported the submission
DeployedAndSubmitted ==
    /\ Bootstrapping
    /\ session.pc = "returned"
    /\ Invoked("deploy") /\ Invoked("execute")
    /\ session.didSubmitTx = Def(TRUE)


\* C37: the safeAddress of a session initializeTradingSession returns is the
\* address derived from the EOA at the derive_safe step, also when the Safe
\* was deployed in the run and the deploy was acknowledged with another
\* proxyAddress: the acknowledged address must be there, and is neither
\* compared with the derived one nor taken over.
SessionKeepsDerivedSafe ==
    /\ (Bootstrapping /\ IsDef(session.safeAddress)) =>
          session.safeAddress = Def(DerivedSafe)
    /\ (Bootstrapping /\ session.pc = "returned") =>
          /\ Val(session.result).safeAddress = DerivedSafe
          /\ Val(session.result).eoaAddress = EoaAddress
          /\ Invoked("deploy") => HasProxyAddress(session.deployResult)
    /\ (Bootstrapping /\ IsDef(session.deployResult)
            /\ HasProxyAddress(session.deployResult)) =>
          session.error # Def("Safe deployment failed")

\* C37 happens: the deploy was acknowledged with another address than the
\* derived one, and the session returned carries the derived one
DeployedElsewhereReturned ==
    /\ Bootstrapping
    /\ session.pc = "returned"
    /\ session.deployResult = Def([proxyAddress |-> Def(OtherSafe)])
    /\ Val(session.result).safeAddress = DerivedSafe


-----------------------------------------------------------------------------
(* Further properties of checkAllApprovals, under SpecApprovals *)

\* What the read of a spender says, a read that threw saying no
AllowanceSaysApproved(name) ==
    /\ approval.allowanceReads[name].ok
    /\ approval.allowanceReads[name].value >= ThresholdAsked
IsApprovedSaysApproved(name) ==
    /\ approval.isApprovedReads[name].ok
    /\ approval.isApprovedReads[name].value

\* C38: the status checkAllApprovals returns is fixed by what each spender's
\* read said, in whichever order the four allowance reads and the three
\* isApprovedForAll reads settled: the same maps and the same allApproved; and
\* no isApprovedForAll read is under way before all allowance reads have
\* settled.
StatusIgnoresCompletionOrder ==
    /\ approval.pc = "returned" =>
          Val(approval.result) =
              [ allApproved |->
                    /\ \A name \in Names(USDC_E_SPENDERS) : AllowanceSaysApproved(name)
                    /\ \A name \in Names(OUTCOME_TOKEN_SPENDERS) :
                          IsApprovedSaysApproved(name),
                usdcApprovals |->
                    [name \in Names(USDC_E_SPENDERS) |-> AllowanceSaysApproved(name)],
                outcomeTokenApprovals |->
                    [name \in Names(OUTCOME_TOKEN_SPENDERS) |->
                        IsApprovedSaysApproved(name)] ]
    /\ approval.pc = "await_allowance" =>
          /\ DOMAIN approval.allowanceReads # Names(USDC_E_SPENDERS)
          /\ approval.isApprovedReads = EmptyRecord
    /\ (approval.pc = "await_isApprovedForAll" \/ approval.isApprovedReads # EmptyRecord) =>
          DOMAIN approval.allowanceReads = Names(USDC_E_SPENDERS)

\* C38 happens: a status was returned after one allowance read threw, one was
\* below the threshold and one isApprovedForAll read said no
MixedReadsReturned ==
    /\ approval.pc = "returned"
    /\ ~approval.allowanceReads["CTF Exchange"].ok
    /\ approval.allowanceReads["CTF Contract"] = Returned(0)
    /\ approval.allowanceReads["Neg Risk Adapter"].ok
    /\ AllowanceSaysApproved("Neg Risk Adapter")
    /\ approval.isApprovedReads["Neg Risk Exchange"] = Returned(FALSE)
    /\ approval.isApprovedReads["Neg Risk Adapter"] = Returned(TRUE)
    /\ ~Val(approval.result).allApproved
    /\ Val(approval.result).usdcApprovals["Neg Risk Adapter"]


\* Invocation c is an order call about to submit
AboutToSubmit(c) ==
    /\ call[c].kind \in {"limit", "market"}
    /\ call[c].pc = "submit"
    /\ IsDef(call[c].req)

\* The risk flag the cache or the lookup gave invocation c, if any
RiskFlagFound(c) ==
    IF call[c].path = "hit" THEN Def(Val(call[c].cached).negRisk)
    ELSE IF call[c].path = "miss" THEN Field(Val(call[c].ob), "neg_risk")
    ELSE Undefined

\* The request of invocation c has nothing about it that is refused before
\* the submission: no tick handling, a price or an amount, no expiry needed
PlainRequest(c) ==
    LET req == Val(call[c].req)
    IN  /\ ~IsDef(req.tickSizeMode)
        /\ call[c].kind = "limit" =>
              /\ IsDef(req.price) /\ ~IsDef(req.isMarketOrder) /\ ~IsDef(req.timeInForce)
        /\ call[c].kind = "market" =>
              /\ req.side = "BUY" => req.amountUsdc = Def(10)
              /\ req.side = "SELL" => req.amountShares = Def(10)

\* C39: in createLimitOrder and createMarketOrder the options submitted carry
\* req.negRisk when the caller gave it, whatever the cache or the lookup hold;
\* when the caller gave none they carry the flag the cache or the lookup gave,
\* and no negRisk at all when those gave none (mode manual, or a lookup
\* without neg_risk): the order is submitted all the same.
SubmittedRiskFlag ==
    \A c \in Calls :
        /\ AboutToSubmit(c) =>
              LET req == Val(call[c].req)
                  options == Val(Val(call[c].pending).arg).options
              IN  /\ IsDef(req.negRisk) => options.negRisk = req.negRisk
                  /\ ~IsDef(req.negRisk) => options.negRisk = RiskFlagFound(c)
        /\ ( /\ call[c].kind \in {"limit", "market"}
             /\ IsDef(call[c].req)
             /\ call[c].pc \notin {"await_getOrderBook", "thrown"}
             /\ PlainRequest(c) ) => call[c].pc = "submit"

\* C39 witness: the caller said negRisk false, the lookup said true, and the
\* order goes out with false
CallerFlagSubmitted ==
    \E c \in Calls :
        /\ AboutToSubmit(c)
        /\ Val(call[c].req).negRisk = Def(FALSE)
        /\ call[c].path = "miss"
        /\ Field(Val(call[c].ob), "neg_risk") = Def(TRUE)
        /\ Val(Val(call[c].pending).arg).options.negRisk = Def(FALSE)


-----------------------------------------------------------------------------
(* Termination of the order calls and of the bootstrap, under                *)
(* SpecTerminating                                                           *)

\* The most collaborator calls one invocation makes: getOrderBook, getPrice
\* and the submission for an order call; for the bootstrap createRelayClient,
\* getBytecode, deploy and its wait, deriveApiKey, createApiKey, three
\* approval checks, execute and its wait
MaxOrderCalls == 3
MaxSessionCalls == 11

\* An invocation is under way
OrderRunning(c) == call[c].pc \notin {"idle", "returned", "thrown"}
SessionRunning == session.pc \notin {"idle", "returned", "threw"}

\* C40: every invocation of createLimitOrder, createMarketOrder and
\* initializeTradingSession (and ensureApprovals) returns or throws, provided
\* each collaborator call it awaits returns or fails in the end; and the
\* number of collaborator calls of one invocation is bounded by a constant,
\* there being no loop and no retry.
EveryInvocationTerminates ==
    /\ \A c \in Calls : OrderRunning(c) ~> (call[c].pc \in {"returned", "thrown"})
    /\ SessionRunning ~> (session.pc \in {"returned", "threw"})
    /\ [](\A c \in Calls : Len(call[c].net) <= MaxOrderCalls)
    /\ [](Cardinality(CallsAt) <= MaxSessionCalls)

\* C40 witness: a bootstrap returned after all eleven collaborator calls
LongestBootstrapReturned ==
    /\ Bootstrapping
    /\ session.pc = "returned"
    /\ Cardinality(CallsAt) = MaxSessionCalls

=============================================================================
